---- MODULE Spec2Model ----
(***************************************************************************)
(* Model of the document-upload handler (api/onboarding/upload-documents)  *)
(* of roam-partner-management: multer intake, batch preconditions, the     *)
(* per-file loop (type resolution, size check, storage write, record       *)
(* insert, compensating delete) and the batch post-processing.             *)
(***************************************************************************)
EXTENDS Integers, Sequences, FiniteSets, TLC

\* ------------------------------------------------------------------------
\* Bounds of the model
\* ------------------------------------------------------------------------
MaxFiles == 2
MaxNames == 2
MaxLen == 3

\* ------------------------------------------------------------------------
\* Program constants
\* ------------------------------------------------------------------------
MB == 1024 * 1024
PerFileLimitMB == 5
MulterFileSize == 10 * 1024 * 1024
MulterMaxCount == 10
AllowedTypes == {"image/jpeg", "image/png", "application/pdf"}

\* ------------------------------------------------------------------------
\* Strings that the code inspects character by character are sequences of
\* one-character strings.
\* ------------------------------------------------------------------------
Letters ==
    {"a", "b", "c", "d", "e", "f", "g", "h", "i", "j", "k", "l", "m", "n", "o", "p",
     "q", "r", "s", "t", "u", "v", "w", "x", "y", "z",
     "A", "B", "C", "D", "E", "F", "G", "H", "I", "J", "K", "L", "M", "N", "O", "P",
     "Q", "R", "S", "T", "U", "V", "W", "X", "Y", "Z"}
Digits == {"0", "1", "2", "3", "4", "5", "6", "7", "8", "9"}

\* \w is [A-Za-z0-9_]
WordChars == Letters \cup Digits \cup {"_"}
SpaceChars == {" ", "\t"}

\* One step of replace(/[^\w\s.-]/g, " ")
ReplaceChar(c) ==
    IF c \in WordChars \/ c \in SpaceChars \/ c = "." \/ c = "-" THEN c ELSE " "

RECURSIVE ReplaceSpecial(_)
ReplaceSpecial(s) ==
    IF s = <<>> THEN <<>> ELSE <<ReplaceChar(Head(s))>> \o ReplaceSpecial(Tail(s))

\* replace(/\s+/g, " "): every maximal run of whitespace becomes one space
RECURSIVE CollapseSpaces(_)
CollapseSpaces(s) ==
    IF s = <<>> THEN <<>>
    ELSE IF Head(s) \in SpaceChars
         THEN IF Len(s) > 1 /\ s[2] \in SpaceChars
              THEN CollapseSpaces(Tail(s))
              ELSE <<" ">> \o CollapseSpaces(Tail(s))
         ELSE <<Head(s)>> \o CollapseSpaces(Tail(s))

RECURSIVE TrimLeft(_)
TrimLeft(s) ==
    IF s # <<>> /\ Head(s) \in SpaceChars THEN TrimLeft(Tail(s)) ELSE s

RECURSIVE TrimRight(_)
TrimRight(s) ==
    IF s # <<>> /\ s[Len(s)] \in SpaceChars
    THEN TrimRight(SubSeq(s, 1, Len(s) - 1)) ELSE s

Trim(s) == TrimRight(TrimLeft(s))

\* the three calls with trim() made first
NormalizeTrimFirst(s) == CollapseSpaces(ReplaceSpecial(Trim(s)))

\* .replace(/[^\w\s.-]/g, " ").replace(/\s+/g, " ").trim(), lines 155-158
NormalizeFileName(s) == Trim(CollapseSpaces(ReplaceSpecial(s)))

\* originalname.split(".").pop(): the part after the last ".", the whole
\* name when it has none
RECURSIVE FileExtension(_)
FileExtension(s) ==
    IF \E k \in 1..Len(s) : s[k] = "."
    THEN FileExtension(Tail(s))
    ELSE s

\* ------------------------------------------------------------------------
\* Document mappings.  The parsed mapping is either JSON null or an object,
\* given as the sequence of its [key, value] entries in insertion order.
\* ------------------------------------------------------------------------
Undefined == "undefined"

HasKey(entries, name) == \E k \in 1..Len(entries) : entries[k].key = name

\* JSON.parse returns a plain object: a property read that finds no own key
\* goes to Object.prototype.  The functions found there are given by what
\* `${documentType}` makes of them.
NameConstructor == <<"c", "o", "n", "s", "t", "r", "u", "c", "t", "o", "r">>
NameToString == <<"t", "o", "S", "t", "r", "i", "n", "g">>

ObjectPrototype ==
    << [key |-> NameConstructor, value |-> "function Object() { [native code] }"],
       [key |-> NameToString, value |-> "function toString() { [native code] }"] >>

\* mappings[file.originalname]
Lookup(entries, name) ==
    IF HasKey(entries, name)
    THEN entries[CHOOSE k \in 1..Len(entries) : entries[k].key = name].value
    ELSE IF HasKey(ObjectPrototype, name)
    THEN ObjectPrototype[CHOOSE k \in 1..Len(ObjectPrototype) :
                            ObjectPrototype[k].key = name].value
    ELSE Undefined

\* !documentType
Falsy(v) == v = Undefined \/ v = ""

\* the for .. of Object.entries(mappings) loop: first normalized match wins
NormalizedMatches(entries, name) ==
    {k \in 1..Len(entries) :
        NormalizeFileName(entries[k].key) = NormalizeFileName(name)}

NormalizedLookup(entries, name) ==
    LET ks == NormalizedMatches(entries, name) IN
    IF ks = {} THEN Undefined
    ELSE entries[CHOOSE k \in ks : \A j \in ks : k <= j].value

\* `document_${i}`
PositionalType(i) == "document_" \o ToString(i)

\* the same with the normalized match tried before the exact key
ResolveNormalizedFirst(entries, name, i) ==
    LET fuzzy == NormalizedLookup(entries, name) IN
    LET exact == IF Falsy(fuzzy) THEN Lookup(entries, name) ELSE fuzzy IN
    IF Falsy(exact) THEN PositionalType(i) ELSE exact

\* lines 150-175 for the file at zero-based position i
ResolveDocumentType(entries, name, i) ==
    LET exact == Lookup(entries, name) IN
    LET fuzzy == IF Falsy(exact) THEN NormalizedLookup(entries, name) ELSE exact IN
    IF Falsy(fuzzy) THEN PositionalType(i) ELSE fuzzy

\* the limit of the multer configuration used in place of the 5 MB one
ExceedsLimitMulter(size) == size > MulterFileSize

\* fileSizeMB > 5, with fileSizeMB = file.size / (1024 * 1024)
ExceedsLimit(size) == size > PerFileLimitMB * MB

\* fileSizeMB.toFixed(2), as a number of hundredths of a MB
SizeMBFixed2(size) == (size * 100 + MB \div 2) \div MB

\* ------------------------------------------------------------------------
\* Inputs of a request
\* ------------------------------------------------------------------------
Procs == {"b1", "b2"}

NameA == <<"a", ".", "p", "d", "f">>

UploadedFile(name, size, mimetype) ==
    [originalname |-> name, size |-> size, mimetype |-> mimetype]

UploadedFiles ==
    { UploadedFile(NameA, PerFileLimitMB * MB, "application/pdf"),
      UploadedFile(NameA, PerFileLimitMB * MB + 1, "application/pdf"),
      UploadedFile(NameA, MulterFileSize + 1, "application/pdf"),
      UploadedFile(NameA, PerFileLimitMB * MB, "text/plain") }

RECURSIVE SeqsUpTo(_, _)
SeqsUpTo(S, n) ==
    IF n = 0 THEN {<<>>}
    ELSE LET shorter == SeqsUpTo(S, n - 1) IN
         shorter \cup {Append(q, x) : q \in {r \in shorter : Len(r) = n - 1}, x \in S}

FileBatches == SeqsUpTo(UploadedFiles, MaxFiles)

\* body.documentMappings: absent, text that is not JSON, the JSON text
\* "null", or the JSON text of an object
MappingInputs ==
    { [kind |-> "absent", entries |-> <<>>],
      [kind |-> "invalid", entries |-> <<>>],
      [kind |-> "null", entries |-> <<>>],
      [kind |-> "object", entries |-> <<[key |-> NameA, value |-> "drivers_license"]>>] }

UserIds == {"", "u1", "u2"}
BusinessIds == {"", "biz1", "biz2"}

Bodies == [userId : UserIds, businessId : BusinessIds, documentMappings : MappingInputs]

\* ------------------------------------------------------------------------
\* The remote tables before the batch
\* ------------------------------------------------------------------------
\* providers rows: u1 owns biz1 and biz2; biz2 has no business_profiles row
Providers ==
    { [user_id |-> "u1", business_id |-> "biz1", provider_role |-> "owner"],
      [user_id |-> "u1", business_id |-> "biz2", provider_role |-> "owner"],
      [user_id |-> "u2", business_id |-> "biz1", provider_role |-> "provider"] }

ProfileIds == {"biz1"}

PublicUrl(path) == [bucket |-> "provider-documents", path |-> path]

FilePath(businessId, documentType, timestamp, ext) ==
    [dir |-> "provider-documents", business |-> businessId,
     type |-> documentType, ts |-> timestamp, ext |-> ext]

\* a record that an earlier batch persisted, with the blob it wrote
OldRecord(n, type, status) ==
    [id |-> n, business_id |-> "biz1", document_type |-> type,
     document_name |-> NameA,
     file_url |-> PublicUrl(FilePath("biz1", type, 0, FileExtension(NameA))),
     file_size_bytes |-> MB, verification_status |-> status]

\* the business before the batch: its setup_step, its legal form and its
\* document records
Scenario(step, type, docs) == [setup_step |-> step, business_type |-> type, docs |-> docs]

InitialScenarios ==
    { Scenario(1, "sole_proprietorship", {}),
      Scenario(3, "llc", {OldRecord(1, "drivers_license", "rejected")}),
      Scenario(2, "sole_proprietorship",
               {OldRecord(1, "proof_of_address", "pending"),
                OldRecord(2, "professional_license", "verified"),
                OldRecord(3, "professional_certificate", "under_review"),
                OldRecord(4, "drivers_license", "rejected")}) }

NoResponse == [kind |-> "none"]
NoBody == [userId |-> Undefined, businessId |-> Undefined,
           documentMappings |-> [kind |-> "absent", entries |-> <<>>]]
NoFile == [documentType |-> "", filePath |-> FilePath("", "", 0, <<>>)]
NoProfile == [id |-> "", business_type |-> "", verification_status |-> ""]

VARIABLES
    now,                 \* the clock read by Date.now()
    storage,             \* blobs of the provider-documents bucket
    business_documents,  \* rows of the business_documents table
    business_profiles,   \* rows of the business_profiles table, by id
    nextId,              \* next id the business_documents table assigns
    pc,                  \* position of each handler execution
    files,               \* req.files after multer
    body,                \* req.body after multer
    mappings,            \* the parsed documentMappings
    businessProfile,     \* the row read at lines 133-137
    i,                   \* loop index
    cur,                 \* documentType and filePath of the file in progress
    uploadedDocuments,
    errors,
    uploadedTypes,
    response,
    trace                \* what each execution did, in order

\* the onboarding wizard (client/pages/ProviderOnboardingFlow.tsx)
VARIABLES
    onboardingState,     \* the useState of lines 95-107
    error,               \* the useState of line 110
    location,            \* useLocation() and useParams()
    user,                \* useAuth(): the id of the signed-in user
    sessionStorage,      \* the item phase2_session
    navigated,           \* where navigate() has sent the browser
    lastEvent            \* the handler that ran last, and how it went

wizard == <<onboardingState, error, location, user, sessionStorage, navigated,
            lastEvent>>

\* the service pricing step (ServicePricingSetup)
VARIABLES
    pricingData,         \* the useState of lines 101-109
    newService,          \* the useState of lines 114-120
    servicePricing       \* the other state of the step, and what it has done

pricingStep == <<pricingData, newService, servicePricing>>

\* the personal profile step (PersonalProfileSetup.tsx)
VARIABLES
    formData,            \* the useState of lines 88-99
    imageUpload,         \* avatarUpload and coverUpload, lines 101-113
    personalProfile      \* the other state of the step, and what it has done

profileStep == <<formData, imageUpload, personalProfile>>

\* the admin endpoint api/admin/debug-user-business.ts
VARIABLES
    providers,           \* rows of the providers table
    debugCall            \* the last request and its response

adminEndpoint == <<providers, debugCall>>

frontend == <<wizard, pricingStep, profileStep, adminEndpoint>>

vars == <<now, storage, business_documents, business_profiles, nextId, pc, files,
          body, mappings, businessProfile, i, cur, uploadedDocuments, errors,
          uploadedTypes, response, trace, frontend>>

remote == <<storage, business_documents, business_profiles, nextId>>
locals == <<files, body, mappings, businessProfile, i, cur, uploadedDocuments,
            errors, uploadedTypes>>

\* the upload handler's variables, which the pages of the client leave alone
backend == <<now, remote, pc, locals, response, trace>>

\* everything but the wizard
outsideWizard == <<backend, pricingStep, profileStep, adminEndpoint>>

\* everything but the pricing step, which reads the clock
outsidePricing == <<remote, pc, locals, response, trace, wizard, profileStep, adminEndpoint>>

\* everything but the profile step
outsideProfile == <<backend, wizard, pricingStep, adminEndpoint>>

\* everything but the admin endpoint and the tables it reads
outsideAdmin == <<now, storage, business_documents, nextId, pc, locals, response,
                  trace, wizard, pricingStep, profileStep>>

InitRemote ==
    /\ now = 0
    /\ \E sc \in InitialScenarios :
        /\ business_documents = sc.docs
        /\ storage = {[path |-> d.file_url.path, by |-> <<"old", d.id>>] : d \in sc.docs}
        /\ nextId = Cardinality(sc.docs) + 1
        /\ business_profiles =
            [b \in ProfileIds |-> [id |-> b, business_type |-> sc.business_type,
                                   verification_status |-> "pending",
                                   setup_step |-> sc.setup_step]]

InitLocal ==
    /\ pc = [p \in Procs |-> "idle"]
    /\ files = [p \in Procs |-> <<>>]
    /\ body = [p \in Procs |-> NoBody]
    /\ mappings = [p \in Procs |-> [kind |-> "object", entries |-> <<>>]]
    /\ businessProfile = [p \in Procs |-> NoProfile]
    /\ i = [p \in Procs |-> 0]
    /\ cur = [p \in Procs |-> NoFile]
    /\ uploadedDocuments = [p \in Procs |-> <<>>]
    /\ errors = [p \in Procs |-> <<>>]
    /\ uploadedTypes = [p \in Procs |-> {}]
    /\ response = [p \in Procs |-> NoResponse]
    /\ trace = [p \in Procs |-> <<>>]

\* ------------------------------------------------------------------------
\* The onboarding wizard before its first effect has run
\* ------------------------------------------------------------------------
Null == "null"

\* type Phase1Step, lines 36-41, and type Phase2Step, lines 42-54
Phase1Step == {"signup", "business_info", "documents", "review", "submitted"}
Phase2Step ==
    {"welcome", "business_profile", "personal_profile", "business_hours",
     "staff_management", "banking_payout", "service_pricing", "final_review",
     "identity_verification", "bank_connection", "stripe_setup", "complete"}

\* the ids of phase1Steps, lines 70-75, and of phase2Steps, lines 77-86
phase1Steps == <<"signup", "business_info", "documents", "review">>
phase2Steps ==
    <<"welcome", "business_profile", "personal_profile", "business_hours",
      "staff_management", "banking_payout", "service_pricing", "final_review">>

\* lines 95-107
InitialOnboardingState ==
    [phase |-> "phase1", phase1Step |-> "signup", phase2Step |-> "welcome",
     businessId |-> Undefined, userId |-> Undefined]

\* location.pathname either holds /phase2/ or not; params.step is the
\* :step segment of a phase 2 route
Location(isPhase2, stepParam) == [phase2 |-> isPhase2, step |-> stepParam]
Phase1Route == Location(FALSE, Undefined)
\* the :step segments a visit from outside arrives with
RouteSteps == {Undefined, "final_review", "identity_verification"}
Locations == {Phase1Route} \cup {Location(TRUE, st) : st \in RouteSteps}

NoEvent == [handler |-> "none", response |-> NoResponse, session |-> "none"]

InitWizardState ==
    /\ onboardingState = InitialOnboardingState
    /\ error = Null
    /\ navigated = Undefined
    /\ lastEvent = NoEvent

InitWizardIdle ==
    /\ InitWizardState
    /\ location = Phase1Route
    /\ user = Undefined
    /\ sessionStorage = Null

\* ------------------------------------------------------------------------
\* The service pricing step when it is mounted; of a service and of the
\* form of a new service the name, the description and the price are kept
\* ------------------------------------------------------------------------
EmptyService == [name |-> "", description |-> "", basePrice |-> 0]

\* lines 101-109, without initialData
InitialPricingData ==
    [services |-> <<>>, pricingModel |-> "fixed", currency |-> "USD", taxRate |-> 0]

NoOp == [op |-> "none", id |-> 0, ok |-> FALSE]

InitPricing ==
    /\ pricingData = InitialPricingData
    /\ newService = EmptyService
    /\ servicePricing =
        [showAddServiceModal |-> FALSE, editingService |-> <<>>, error |-> Null,
         opened |-> "none", lastOp |-> NoOp, onComplete |-> <<>>]

\* ------------------------------------------------------------------------
\* The personal profile step when it is mounted; the bio is kept by its
\* length
\* ------------------------------------------------------------------------
ImageTypes == {"avatar", "cover"}

\* lines 88-99, without initialData
InitialFormData ==
    [professionalTitle |-> "", bioLength |-> 0, yearsExperience |-> 0,
     website |-> Undefined, avatarUrl |-> Undefined, coverImageUrl |-> Undefined]

\* lines 101-113
NoImage == [file |-> Null, uploading |-> FALSE, uploaded |-> FALSE,
            url |-> Undefined, error |-> Undefined]

InitProfile ==
    /\ formData = InitialFormData
    /\ imageUpload = [t \in ImageTypes |-> NoImage]
    /\ personalProfile =
        [loaded |-> FALSE, error |-> Null, validationErrors |-> {},
         put |-> <<>>, onComplete |-> <<>>]

\* ------------------------------------------------------------------------
\* The admin endpoint before any request
\* ------------------------------------------------------------------------
NoRequest ==
    [method |-> "none", userId |-> Undefined, email |-> Undefined,
     fixRelationships |-> FALSE]

\* the last request, its response, whether it wrote, and the request of the
\* last fix that wrote
NoCall == [request |-> NoRequest, status |-> 0, message |-> "", wrote |-> FALSE,
           fixed |-> <<>>]

InitAdminIdle ==
    /\ providers = {}
    /\ debugCall = NoCall

InitFrontend == InitWizardIdle /\ InitPricing /\ InitProfile /\ InitAdminIdle

Init == InitRemote /\ InitLocal /\ InitFrontend

\* ------------------------------------------------------------------------
\* Responses
\* ------------------------------------------------------------------------
ErrorResponse(status, message) == [kind |-> "error", status |-> status, error |-> message]

\* every remote call either returns data, returns an error value or raises
Outcomes == {"ok", "error", "throw"}
UploadOutcomes == Outcomes \cup {"maximum allowed size"}

Event(op, file, path, outcome) ==
    [op |-> op, file |-> file, path |-> path, outcome |-> outcome]

\* the catch of lines 379-385; details is the message of what was raised
ServerError(details) ==
    [kind |-> "error", status |-> 500, error |-> "Internal server error",
     details |-> details]

InternalServerError == ServerError("Unknown error")

\* multer without the fileSize limit
MulterRejectsNoLimit(fs) ==
    \/ Len(fs) > MulterMaxCount
    \/ \E k \in 1..Len(fs) : fs[k].mimetype \notin AllowedTypes

\* multer: upload.array("documents", 10) with the fileSize limit and the
\* fileFilter of lines 11-29
MulterRejects(fs) ==
    \/ Len(fs) > MulterMaxCount
    \/ \E k \in 1..Len(fs) : fs[k].mimetype \notin AllowedTypes
    \/ \E k \in 1..Len(fs) : fs[k].size > MulterFileSize

\* what multer raises for one file: the count is checked first, then the
\* fileFilter, then the size while the file is read
MulterFileError(fs, k) ==
    IF k > MulterMaxCount THEN "Unexpected field"
    ELSE IF fs[k].mimetype \notin AllowedTypes
    THEN "Invalid file type. Only JPEG, PNG, and PDF files are allowed."
    ELSE IF fs[k].size > MulterFileSize THEN "File too large"
    ELSE ""

\* the message of the error multer raises: that of the first file it refuses
MulterError(fs) ==
    LET bad == {k \in 1..Len(fs) : MulterFileError(fs, k) # ""} IN
    IF bad = {} THEN ""
    ELSE MulterFileError(fs, CHOOSE k \in bad : \A j \in bad : k <= j)

\* JSON.parse(documentMappings || "{}")
ParseMappings(m) ==
    IF m.kind = "absent" THEN [kind |-> "object", entries |-> <<>>] ELSE m

\* ------------------------------------------------------------------------
\* The handler, one action per stretch of code between two awaits
\* ------------------------------------------------------------------------

\* lines 62-69: method check and the test url
Start(p) ==
    /\ pc[p] = "idle"
    /\ \E method \in {"POST", "GET"}, isTest \in BOOLEAN :
        IF method # "POST"
        THEN /\ response' = [response EXCEPT ![p] = ErrorResponse(405, "Method not allowed")]
             /\ pc' = [pc EXCEPT ![p] = "done"]
        ELSE IF isTest
        THEN /\ response' = [response EXCEPT ![p] = [kind |-> "test", status |-> 200]]
             /\ pc' = [pc EXCEPT ![p] = "done"]
        ELSE /\ pc' = [pc EXCEPT ![p] = "multer"]
             /\ UNCHANGED response
    /\ UNCHANGED <<now, remote, locals, trace>>
    /\ UNCHANGED frontend

\* lines 78-115: multer, then the checks on the body that need no remote call
Multer(p, fs, b) ==
    /\ pc[p] = "multer"
    /\ IF MulterRejects(fs)
       THEN /\ response' = [response EXCEPT ![p] = ServerError(MulterError(fs))]
            /\ pc' = [pc EXCEPT ![p] = "done"]
            /\ UNCHANGED <<files, body, mappings>>
       ELSE /\ files' = [files EXCEPT ![p] = fs]
            /\ body' = [body EXCEPT ![p] = b]
            /\ IF b.userId = "" \/ b.businessId = ""
               THEN /\ response' = [response EXCEPT ![p] =
                                        ErrorResponse(400, "Missing userId or businessId")]
                    /\ pc' = [pc EXCEPT ![p] = "done"]
                    /\ UNCHANGED mappings
               ELSE IF Len(fs) = 0
               THEN /\ response' = [response EXCEPT ![p] =
                                        ErrorResponse(400, "No files uploaded")]
                    /\ pc' = [pc EXCEPT ![p] = "done"]
                    /\ UNCHANGED mappings
               ELSE IF b.documentMappings.kind = "invalid"
               THEN /\ response' = [response EXCEPT ![p] =
                                        ErrorResponse(400, "Invalid document mappings")]
                    /\ pc' = [pc EXCEPT ![p] = "done"]
                    /\ UNCHANGED mappings
               ELSE /\ mappings' = [mappings EXCEPT ![p] = ParseMappings(b.documentMappings)]
                    /\ pc' = [pc EXCEPT ![p] = "providers"]
                    /\ UNCHANGED response
    /\ UNCHANGED <<now, remote, businessProfile, i, cur, uploadedDocuments, errors,
                   uploadedTypes, trace>>
    /\ UNCHANGED frontend

\* the same select without .eq("provider_role", "owner")
OwnerRowsAnyRole(userId, businessId) ==
    {r \in Providers : r.user_id = userId /\ r.business_id = businessId}

\* lines 118-130: the owner row of (userId, businessId), .single()
OwnerRows(userId, businessId) ==
    {r \in Providers : /\ r.user_id = userId
                       /\ r.business_id = businessId
                       /\ r.provider_role = "owner"}

CheckOwnership(p, outcome) ==
    /\ pc[p] = "providers"
    /\ IF outcome = "throw"
       THEN /\ response' = [response EXCEPT ![p] = InternalServerError]
            /\ pc' = [pc EXCEPT ![p] = "done"]
       ELSE IF outcome = "error"
               \/ Cardinality(OwnerRows(body[p].userId, body[p].businessId)) # 1
       THEN /\ response' = [response EXCEPT ![p] =
                ErrorResponse(404, "Business profile not found or not owned by user")]
            /\ pc' = [pc EXCEPT ![p] = "done"]
       ELSE /\ pc' = [pc EXCEPT ![p] = "business_profiles"]
            /\ UNCHANGED response
    /\ UNCHANGED <<now, remote, locals, trace>>
    /\ UNCHANGED frontend

\* lines 133-141: the business profile, .single()
GetBusinessProfile(p, outcome) ==
    /\ pc[p] = "business_profiles"
    /\ IF outcome = "throw"
       THEN /\ response' = [response EXCEPT ![p] = InternalServerError]
            /\ pc' = [pc EXCEPT ![p] = "done"]
            /\ UNCHANGED businessProfile
       ELSE IF outcome = "error" \/ body[p].businessId \notin DOMAIN business_profiles
       THEN /\ response' = [response EXCEPT ![p] =
                                ErrorResponse(404, "Business profile not found")]
            /\ pc' = [pc EXCEPT ![p] = "done"]
            /\ UNCHANGED businessProfile
       ELSE /\ businessProfile' = [businessProfile EXCEPT ![p] =
                LET row == business_profiles[body[p].businessId] IN
                [id |-> row.id, business_type |-> row.business_type,
                 verification_status |-> row.verification_status]]
            /\ pc' = [pc EXCEPT ![p] = "file"]
            /\ UNCHANGED response
    /\ UNCHANGED <<now, remote, files, body, mappings, i, cur, uploadedDocuments,
                   errors, uploadedTypes, trace>>
    /\ UNCHANGED frontend

\* ------------------------------------------------------------------------
\* The per-file loop, lines 147-306
\* ------------------------------------------------------------------------
FileError(file, kind, message, sizeMB) ==
    [file |-> file, kind |-> kind, message |-> message, sizeMB |-> sizeMB]

NoSize == 0 - 1

\* where the handler goes once the file at position i[p] is finished: the
\* next iteration, or the code after the loop (line 309)
AfterFile(p, uploaded) ==
    IF i[p] + 1 < Len(files[p]) THEN "file"
    ELSE IF Len(uploaded) > 0 THEN "existing_docs" ELSE "all_docs"

\* a loop that takes the first file that failed once more
NextFileRetry(p, uploaded) ==
    IF errors[p] = <<>> /\ uploaded = <<>>
          /\ \A n \in 1..Len(trace[p]) : trace[p][n].op # "upload"
    THEN /\ i' = i
         /\ pc' = [pc EXCEPT ![p] = "file"]
    ELSE /\ i' = [i EXCEPT ![p] = i[p] + 1]
         /\ pc' = [pc EXCEPT ![p] = AfterFile(p, uploaded)]

\* continue, or the end of the loop body: i++
NextFile(p, uploaded) ==
    /\ i' = [i EXCEPT ![p] = i[p] + 1]
    /\ pc' = [pc EXCEPT ![p] = AfterFile(p, uploaded)]

Paths == {b.path : b \in storage}

\* only the size-limit error of the store is looked at
UploadFailedSizeOnly(outcome) == outcome = "maximum allowed size"

\* if (uploadError), line 207
UploadFailed(outcome) == outcome \in {"error", "maximum allowed size"}

\* dbError is not looked at
InsertFailedNever(outcome) == FALSE

\* if (dbError), line 274
InsertFailed(outcome) == outcome = "error"

\* the storage write with upsert: false
StorageUpload(path, owner, outcome) ==
    IF outcome = "ok" THEN storage \cup {[path |-> path, by |-> owner]} ELSE storage

\* a remove of every blob of the business with that document type
StorageRemoveType(path, outcome) ==
    IF outcome = "ok"
    THEN {b \in storage : ~(b.path.business = path.business /\ b.path.type = path.type)}
    ELSE storage

\* a remove by the name of the blob within its directory, whatever the
\* time in it
StorageRemoveAnyTime(path, outcome) ==
    IF outcome = "ok"
    THEN {b \in storage : ~(b.path.business = path.business /\ b.path.type = path.type
                                /\ b.path.ext = path.ext)}
    ELSE storage

\* storage.remove([path])
StorageRemove(path, outcome) ==
    IF outcome = "ok" THEN {b \in storage : b.path # path} ELSE storage

\* lines 148-220: type resolution, size check, locator, storage write
ProcessFile(p, outcome, timestamp) ==
    /\ pc[p] = "file"
    /\ LET file == files[p][i[p] + 1] IN
       IF mappings[p].kind = "null"
       THEN \* mappings[file.originalname] on null raises outside the inner try
            /\ response' = [response EXCEPT ![p] = InternalServerError]
            /\ pc' = [pc EXCEPT ![p] = "done"]
            /\ UNCHANGED <<now, storage, i, cur, errors, trace>>
       ELSE
       LET documentType ==
               ResolveDocumentType(mappings[p].entries, file.originalname, i[p])
           filePath == FilePath(body[p].businessId, documentType, timestamp,
                                FileExtension(file.originalname))
       IN
       IF ExceedsLimit(file.size)
       THEN /\ errors' = [errors EXCEPT ![p] = Append(@,
                FileError(i[p], "process", "exceeds the 5MB limit",
                          SizeMBFixed2(file.size)))]
            /\ trace' = [trace EXCEPT ![p] = Append(@,
                Event("validate", i[p], NoFile.filePath, "too big"))]
            /\ NextFile(p, uploadedDocuments[p])
            /\ UNCHANGED <<now, storage, cur, response>>
       ELSE
            \* Date.now(): the clock has not gone back since the last read
            /\ timestamp >= now
            /\ now' = timestamp
            /\ trace' = [trace EXCEPT ![p] =
                @ \o << Event("validate", i[p], NoFile.filePath, "ok"),
                        Event("upload", i[p], filePath, outcome) >>]
            /\ UNCHANGED response
            \* upsert: false, the write does not succeed on an existing path
            /\ outcome = "ok" => filePath \notin Paths
            /\ storage' = StorageUpload(filePath, <<p, i[p]>>, outcome)
            /\ IF outcome = "throw"
               THEN /\ errors' = [errors EXCEPT ![p] = Append(@,
                        FileError(i[p], "process", "upload raised", NoSize))]
                    /\ NextFile(p, uploadedDocuments[p])
                    /\ UNCHANGED cur
               ELSE IF UploadFailed(outcome)
               THEN /\ errors' = [errors EXCEPT ![p] = Append(@,
                        IF outcome = "maximum allowed size"
                        THEN FileError(i[p], "upload", "smaller than 5MB",
                                       SizeMBFixed2(file.size))
                        ELSE FileError(i[p], "upload", "storage error", NoSize))]
                    /\ NextFile(p, uploadedDocuments[p])
                    /\ UNCHANGED cur
               ELSE /\ cur' = [cur EXCEPT ![p] =
                                [documentType |-> documentType, filePath |-> filePath]]
                    /\ pc' = [pc EXCEPT ![p] = "insert"]
                    /\ UNCHANGED <<i, errors>>
    /\ UNCHANGED <<business_documents, business_profiles, nextId, files, body,
                   mappings, businessProfile, uploadedDocuments, uploadedTypes>>
    /\ UNCHANGED frontend

\* lines 225-299: public url, record insert
InsertRecord(p, outcome) ==
    /\ pc[p] = "insert"
    /\ LET file == files[p][i[p] + 1]
           publicUrl == PublicUrl(cur[p].filePath)
           dbRecord == [id |-> nextId,
                        business_id |-> body[p].businessId,
                        document_type |-> cur[p].documentType,
                        document_name |-> file.originalname,
                        file_url |-> publicUrl,
                        file_size_bytes |-> file.size,
                        verification_status |-> "pending"]
           summary == [id |-> dbRecord.id,
                       documentType |-> cur[p].documentType,
                       fileName |-> file.originalname,
                       url |-> publicUrl,
                       status |-> "uploaded"]
       IN
       \* getPublicUrl is a local call, made before the insert is sent
       /\ trace' = [trace EXCEPT ![p] =
                        @ \o << Event("url", i[p], cur[p].filePath, "ok"),
                                Event("insert", i[p], cur[p].filePath, outcome) >>]
       \* the row exists once the insert has succeeded
       /\ business_documents' = IF outcome = "ok"
                                 THEN business_documents \cup {dbRecord}
                                 ELSE business_documents
       /\ nextId' = IF outcome = "ok" THEN nextId + 1 ELSE nextId
       /\ IF outcome = "throw"
          THEN /\ errors' = [errors EXCEPT ![p] = Append(@,
                        FileError(i[p], "process", "insert raised", NoSize))]
               /\ NextFile(p, uploadedDocuments[p])
               /\ UNCHANGED uploadedDocuments
          ELSE IF InsertFailed(outcome)
          THEN /\ errors' = [errors EXCEPT ![p] = Append(@,
                        FileError(i[p], "record", "database error", NoSize))]
               /\ pc' = [pc EXCEPT ![p] = "remove"]
               /\ UNCHANGED <<uploadedDocuments, i>>
          ELSE /\ uploadedDocuments' = [uploadedDocuments EXCEPT ![p] = Append(@, summary)]
               /\ NextFile(p, uploadedDocuments'[p])
               /\ UNCHANGED errors
    /\ UNCHANGED <<now, storage, business_profiles, files, body, mappings,
                   businessProfile, cur, uploadedTypes, response>>
    /\ UNCHANGED frontend

\* lines 282-287: the compensating delete
RemoveBlob(p, outcome) ==
    /\ pc[p] = "remove"
    /\ trace' = [trace EXCEPT ![p] = Append(@,
                    Event("remove", i[p], cur[p].filePath, outcome))]
    /\ storage' = StorageRemove(cur[p].filePath, outcome)
    /\ errors' = IF outcome = "throw"
                 THEN [errors EXCEPT ![p] = Append(@,
                        FileError(i[p], "process", "remove raised", NoSize))]
                 ELSE errors
    /\ NextFile(p, uploadedDocuments[p])
    /\ UNCHANGED <<now, business_documents, business_profiles, nextId, files, body,
                   mappings, businessProfile, cur, uploadedDocuments, uploadedTypes,
                   response>>
    /\ UNCHANGED frontend

\* ------------------------------------------------------------------------
\* Batch post-processing, lines 308-378
\* ------------------------------------------------------------------------
DocumentsOf(businessId) == {d \in business_documents : d.business_id = businessId}

\* lines 309-316: select id ... limit(1); a failed select yields data = null
ExistingDocs(p, outcome) ==
    /\ pc[p] = "existing_docs"
    /\ UNCHANGED trace
    /\ IF outcome = "throw"
       THEN /\ response' = [response EXCEPT ![p] = InternalServerError]
            /\ pc' = [pc EXCEPT ![p] = "done"]
       ELSE /\ pc' = [pc EXCEPT ![p] =
                IF outcome = "error" \/ DocumentsOf(body[p].businessId) = {}
                THEN "update_profile" ELSE "all_docs"]
            /\ UNCHANGED response
    /\ UNCHANGED <<now, remote, locals>>
    /\ UNCHANGED frontend

Max(a, b) == IF a >= b THEN a ELSE b

\* the value written at lines 321-324
NewSetupStep(profile) ==
    Max(IF profile.verification_status = "pending" THEN 2 ELSE 1, 2)

\* lines 318-327: the setup_step update; its result is not looked at
UpdateProfile(p, outcome) ==
    /\ pc[p] = "update_profile"
    /\ trace' = [trace EXCEPT ![p] = Append(@,
                    Event("update_profile", i[p], NoFile.filePath, outcome))]
    /\ IF outcome = "throw"
       THEN /\ response' = [response EXCEPT ![p] = InternalServerError]
            /\ pc' = [pc EXCEPT ![p] = "done"]
            /\ UNCHANGED business_profiles
       ELSE /\ business_profiles' =
                IF outcome = "ok" /\ body[p].businessId \in DOMAIN business_profiles
                THEN [business_profiles EXCEPT ![body[p].businessId].setup_step =
                            NewSetupStep(businessProfile[p])]
                ELSE business_profiles
            /\ pc' = [pc EXCEPT ![p] = "all_docs"]
            /\ UNCHANGED response
    /\ UNCHANGED <<now, storage, business_documents, nextId, locals>>
    /\ UNCHANGED frontend

\* the select without the filter on verification_status
QualifyingStatusesAny == {"pending", "verified", "under_review", "rejected"}

\* .in("verification_status", [...]), line 336
QualifyingStatuses == {"pending", "verified", "under_review"}

BaseRequiredTypes ==
    <<"drivers_license", "proof_of_address", "professional_license",
      "professional_certificate">>

\* lines 339-349
RequiredTypes(profile) ==
    IF profile.business_type # "sole_proprietorship"
    THEN Append(BaseRequiredTypes, "business_license")
    ELSE BaseRequiredTypes

\* lines 351-353
AllRequiredUploaded(required, types) ==
    \A k \in 1..Len(required) : required[k] \in types

\* the document types read at lines 332-338; a failed select yields []
QualifyingTypes(businessId, outcome) ==
    IF outcome = "ok"
    THEN {d.document_type : d \in
            {r \in DocumentsOf(businessId) :
                r.verification_status \in QualifyingStatuses}}
    ELSE {}

\* lines 366-378, without the debug object
Result(p, types) ==
    [kind |-> "result", status |-> 200,
     uploaded |-> uploadedDocuments[p],
     errorsDefined |-> Len(errors[p]) > 0,
     errors |-> errors[p],
     allRequiredUploaded |-> AllRequiredUploaded(RequiredTypes(businessProfile[p]), types),
     requiredDocuments |-> RequiredTypes(businessProfile[p]),
     uploadedDocuments |-> types]

\* lines 332-378: the select of the qualifying types, the readiness flag,
\* the final select (its rows only go to the debug object) and the result
AllDocs(p, outcome, finalCheck) ==
    /\ pc[p] = "all_docs"
    /\ IF outcome = "throw" \/ finalCheck = "throw"
       THEN /\ response' = [response EXCEPT ![p] = InternalServerError]
            /\ UNCHANGED uploadedTypes
       ELSE /\ uploadedTypes' = [uploadedTypes EXCEPT ![p] =
                                    QualifyingTypes(body[p].businessId, outcome)]
            /\ response' = [response EXCEPT ![p] = Result(p, uploadedTypes'[p])]
    /\ pc' = [pc EXCEPT ![p] = "done"]
    /\ UNCHANGED <<now, remote, files, body, mappings, businessProfile, i, cur,
                   uploadedDocuments, errors, trace>>
    /\ UNCHANGED frontend

\* the values Date.now() can return: time is counted from the first read,
\* a later read falls in the millisecond of the last one or in the next
Timestamps == IF now = 0 THEN {1} ELSE {now, now + 1}

\* ------------------------------------------------------------------------
\* One batch
\* ------------------------------------------------------------------------
Handler(p) ==
    \/ Start(p)
    \/ \E fs \in FileBatches, b \in Bodies : Multer(p, fs, b)
    \/ \E o \in Outcomes : CheckOwnership(p, o)
    \/ \E o \in Outcomes : GetBusinessProfile(p, o)
    \/ \E o \in UploadOutcomes, t \in Timestamps : ProcessFile(p, o, t)
    \/ \E o \in Outcomes : InsertRecord(p, o)
    \/ \E o \in Outcomes : RemoveBlob(p, o)
    \/ \E o \in Outcomes : ExistingDocs(p, o)
    \/ \E o \in Outcomes : UpdateProfile(p, o)
    \/ \E o \in Outcomes, f \in Outcomes : AllDocs(p, o, f)

Next == Handler("b1")

Spec == Init /\ [][Next]_vars

\* ------------------------------------------------------------------------
\* Two batches for the same business at once: each sends one file of 5 MB
\* and no documentMappings, so both files resolve to document_0; the steps
\* of the two executions interleave at the awaits
\* ------------------------------------------------------------------------
ConcBatches == {<<UploadedFile(NameA, PerFileLimitMB * MB, "application/pdf")>>}

ConcBodies ==
    {[userId |-> "u1", businessId |-> "biz1",
      documentMappings |-> [kind |-> "absent", entries |-> <<>>]]}

ConcHandler(p) ==
    \/ Start(p)
    \/ \E fs \in ConcBatches, b \in ConcBodies : Multer(p, fs, b)
    \/ \E o \in Outcomes : CheckOwnership(p, o)
    \/ \E o \in Outcomes : GetBusinessProfile(p, o)
    \/ \E o \in UploadOutcomes, t \in Timestamps : ProcessFile(p, o, t)
    \/ \E o \in Outcomes : InsertRecord(p, o)
    \/ \E o \in Outcomes : RemoveBlob(p, o)
    \/ \E o \in Outcomes : ExistingDocs(p, o)
    \/ \E o \in Outcomes : UpdateProfile(p, o)
    \/ \E o \in Outcomes, f \in Outcomes : AllDocs(p, o, f)

ConcNext == ConcHandler("b1") \/ ConcHandler("b2")

SpecConc == Init /\ [][ConcNext]_vars

\* ------------------------------------------------------------------------
\* Type resolution on its own: lines 147-175 applied to the files of a
\* batch, for file names and mappings that exercise the exact key, the
\* normalized match and the positional fallback
\* ------------------------------------------------------------------------
NameB == <<"b", ".", "p", "n", "g">>
NameUnderscore == <<"a", "_", "b">>
NameHash == <<"a", "#", "b">>
KeySpace == <<"a", " ", "b">>
KeyPadded == <<" ">> \o NameA

ResolveNames == {NameA, NameB, NameConstructor, NameUnderscore, NameHash}

Entry(key, value) == [key |-> key, value |-> value]

\* the entries of the parsed mapping, in insertion order
ResolveMappings ==
    { <<>>,
      <<Entry(NameA, "drivers_license")>>,
      <<Entry(NameA, "")>>,
      <<Entry(KeyPadded, "")>>,
      <<Entry(KeySpace, "proof_of_address")>>,
      <<Entry(KeyPadded, "business_license"), Entry(NameA, "")>>,
      <<Entry(KeyPadded, "business_license"), Entry(NameA, "drivers_license"),
        Entry(NameB, "proof_of_address")>> }

ResolveBatches ==
    { [k \in 1..Len(q) |-> UploadedFile(q[k], MB, "application/pdf")] :
        q \in {r \in SeqsUpTo(ResolveNames, MaxNames) : Len(r) > 0} }

InitResolve ==
    /\ InitRemote
    /\ InitFrontend
    /\ pc = [p \in Procs |-> IF p = "b1" THEN "resolve" ELSE "idle"]
    /\ \E fs \in ResolveBatches, m \in ResolveMappings :
        /\ files = [p \in Procs |-> IF p = "b1" THEN fs ELSE <<>>]
        /\ mappings = [p \in Procs |->
                        [kind |-> "object", entries |-> IF p = "b1" THEN m ELSE <<>>]]
    /\ body = [p \in Procs |-> NoBody]
    /\ businessProfile = [p \in Procs |-> NoProfile]
    /\ i = [p \in Procs |-> 0]
    /\ cur = [p \in Procs |-> NoFile]
    /\ uploadedDocuments = [p \in Procs |-> <<>>]
    /\ errors = [p \in Procs |-> <<>>]
    /\ uploadedTypes = [p \in Procs |-> {}]
    /\ response = [p \in Procs |-> NoResponse]
    /\ trace = [p \in Procs |-> <<>>]

\* lines 147-175 for the file at position i[p]; the event keeps the type
\* the file resolved to
ResolveType(p) ==
    /\ pc[p] = "resolve"
    /\ i[p] < Len(files[p])
    /\ LET file == files[p][i[p] + 1]
           documentType ==
               ResolveDocumentType(mappings[p].entries, file.originalname, i[p])
       IN /\ cur' = [cur EXCEPT ![p] =
                        [documentType |-> documentType, filePath |-> NoFile.filePath]]
          /\ trace' = [trace EXCEPT ![p] = Append(@,
                        Event("resolve", i[p], NoFile.filePath, documentType))]
    /\ i' = [i EXCEPT ![p] = i[p] + 1]
    /\ UNCHANGED <<now, remote, pc, files, body, mappings, businessProfile,
                   uploadedDocuments, errors, uploadedTypes, response>>
    /\ UNCHANGED frontend

NextResolve == ResolveType("b1")

SpecResolve == InitResolve /\ [][NextResolve]_vars

\* ------------------------------------------------------------------------
\* Normalization on its own: lines 155-158 applied to a file name, and
\* then to what it returned
\* ------------------------------------------------------------------------
NormalizeChars == {"a", "_", " ", "\t", "#", "."}

NormalizeNames == SeqsUpTo(NormalizeChars, MaxLen)

InitNormalize ==
    /\ InitRemote
    /\ InitFrontend
    /\ pc = [p \in Procs |-> IF p = "b1" THEN "normalize" ELSE "idle"]
    /\ \E name \in NormalizeNames :
        files = [p \in Procs |->
                    IF p = "b1" THEN <<UploadedFile(name, MB, "application/pdf")>>
                    ELSE <<>>]
    /\ mappings = [p \in Procs |-> [kind |-> "object", entries |-> <<>>]]
    /\ body = [p \in Procs |-> NoBody]
    /\ businessProfile = [p \in Procs |-> NoProfile]
    /\ i = [p \in Procs |-> 0]
    /\ cur = [p \in Procs |-> NoFile]
    /\ uploadedDocuments = [p \in Procs |-> <<>>]
    /\ errors = [p \in Procs |-> <<>>]
    /\ uploadedTypes = [p \in Procs |-> {}]
    /\ response = [p \in Procs |-> NoResponse]
    /\ trace = [p \in Procs |-> <<>>]

\* one application of the normalization: to the name of the file first,
\* then to the result of the application before; the event keeps the result
Normalize(p) ==
    /\ pc[p] = "normalize"
    /\ Len(trace[p]) < 2
    /\ LET input == IF trace[p] = <<>> THEN files[p][1].originalname
                    ELSE trace[p][Len(trace[p])].outcome
       IN trace' = [trace EXCEPT ![p] = Append(@,
                        Event("normalize", 0, NoFile.filePath, NormalizeFileName(input)))]
    /\ UNCHANGED <<now, remote, pc, locals, response>>
    /\ UNCHANGED frontend

NextNormalize == Normalize("b1")

SpecNormalize == InitNormalize /\ [][NextNormalize]_vars

\* ------------------------------------------------------------------------
\* The onboarding wizard.  A handler runs from its first line to its last
\* in one step: while its request is pending loading is true and lines
\* 979-990 render the loading screen alone, so no second handler can be
\* started; loading is therefore false in every state
\* ------------------------------------------------------------------------

\* line 147: 2 * 60 * 60 * 1000
SessionMaxAge == 2 * 60 * 60 * 1000

\* what sessionStorage.getItem('phase2_session') can return: nothing, a
\* string JSON.parse rejects, or a stored session; the clock stands at
\* now, and the session was validated age milliseconds before that
NoSession == [kind |-> "null", stamped |-> FALSE, validated_at |-> 0,
              user_id |-> Undefined, business_id |-> Undefined]
Garbage == [NoSession EXCEPT !.kind = "not json"]

Session(age, userId, businessId) ==
    [kind |-> "session", stamped |-> TRUE, validated_at |-> now - age,
     user_id |-> userId, business_id |-> businessId]

SessionAges == {SessionMaxAge - 1, SessionMaxAge}

Sessions ==
    {NoSession, Garbage}
        \cup {Session(age, "u1", "biz1") : age \in SessionAges}
        \cup {[Session(0, "u1", "biz1") EXCEPT !.stamped = FALSE],
              Session(0, Undefined, Undefined)}

\* lines 142-147: the item exists, parses, and Date.now() - validated_at is
\* below two hours (the difference is NaN when validated_at is missing)
SessionFresh(item, t) ==
    /\ item.kind = "session"
    /\ item.stamped
    /\ t - item.validated_at < SessionMaxAge

\* the fetch of a handler: the response is ok, is an error response, has a
\* body that is not JSON (or is empty), or the fetch itself is rejected
WizardOutcomes == {"ok", "error", "unparsable", "empty", "rejected"}
FetchRejected == "Failed to fetch"

\* the phase 2 steps the status endpoint is taken to answer with
StatusPhase2Steps == {"service_pricing", "bank_connection"}

StatusResponses ==
    {r \in [outcome : {"ok", "error", "rejected"},
            phase : {"phase1", "phase2", "complete"},
            currentStep : Phase1Step \cup StatusPhase2Steps \cup {Undefined},
            businessId : {Undefined, "biz1"}] :
        /\ r.outcome # "ok" =>
            r.phase = "phase1" /\ r.currentStep = Undefined /\ r.businessId = Undefined
        /\ r.phase = "phase1" => r.currentStep \in Phase1Step \cup {Undefined}
        /\ r.phase = "phase2" => r.currentStep \in StatusPhase2Steps \cup {Undefined}
        /\ r.phase = "complete" => r.currentStep = Undefined /\ r.businessId = Undefined}

WizardEvent(handler, r) == [lastEvent EXCEPT !.handler = handler, !.response = r]

\* lines 138-166
InitializePhase2 ==
    IF SessionFresh(sessionStorage, now)
    THEN /\ onboardingState' =
                [onboardingState EXCEPT
                    !.phase = "phase2",
                    !.businessId = sessionStorage.business_id,
                    !.userId = sessionStorage.user_id,
                    !.phase2Step = IF Falsy(location'.step) THEN "welcome"
                                   ELSE location'.step]
         /\ lastEvent' = [handler |-> "initializePhase2", response |-> NoResponse,
                          session |-> "fresh"]
         /\ UNCHANGED navigated
    ELSE /\ navigated' = "/provider-portal"
         /\ lastEvent' = WizardEvent("initializePhase2", NoResponse)
         /\ UNCHANGED onboardingState

\* lines 168-224, for the signed-in user
CheckOnboardingStatus(r) ==
    IF r.outcome = "ok"
    THEN IF r.phase = "complete"
         THEN /\ navigated' = "/provider-dashboard"
              /\ lastEvent' = WizardEvent("checkOnboardingStatus", NoResponse)
              /\ UNCHANGED onboardingState
         ELSE IF r.phase = "phase2"
         THEN /\ onboardingState' =
                    [onboardingState EXCEPT
                        !.phase = "phase2",
                        !.phase2Step = IF Falsy(r.currentStep) THEN "welcome"
                                       ELSE r.currentStep,
                        !.businessId = r.businessId,
                        !.userId = user']
              /\ lastEvent' =
                    [handler |-> "checkOnboardingStatus", response |-> NoResponse,
                     session |-> IF SessionFresh(sessionStorage, now)
                                 THEN "fresh" ELSE "none"]
              /\ UNCHANGED navigated
         ELSE /\ onboardingState' =
                    [onboardingState EXCEPT
                        !.phase = "phase1",
                        !.phase1Step = IF Falsy(r.currentStep) THEN "business_info"
                                       ELSE r.currentStep,
                        !.businessId = r.businessId,
                        !.userId = user']
              /\ lastEvent' = WizardEvent("checkOnboardingStatus", NoResponse)
              /\ UNCHANGED navigated
    ELSE /\ onboardingState' =
                [onboardingState EXCEPT
                    !.phase = "phase1", !.phase1Step = "signup", !.userId = user']
         /\ lastEvent' = WizardEvent("checkOnboardingStatus", NoResponse)
         /\ UNCHANGED navigated

\* lines 117-136
InitializeOnboardingState(r) ==
    IF location'.phase2 THEN InitializePhase2
    ELSE IF ~Falsy(user') THEN CheckOnboardingStatus(r)
    ELSE /\ onboardingState' =
                [onboardingState EXCEPT !.phase = "phase1", !.phase1Step = "signup"]
         /\ lastEvent' = WizardEvent("initializeOnboardingState", NoResponse)
         /\ UNCHANGED navigated

\* the status request is sent only off the phase 2 routes and only for a
\* signed-in user; r stands for no response otherwise
NoStatus == [outcome |-> "rejected", phase |-> "phase1", currentStep |-> Undefined,
             businessId |-> Undefined]
StatusRequested(loc, usr) == ~loc.phase2 /\ ~Falsy(usr)

\* lines 113-115 when the component has mounted
MountEffect(r) ==
    /\ lastEvent.handler = "none"
    /\ StatusRequested(location, user) \/ r = NoStatus
    /\ UNCHANGED <<location, user>>
    /\ InitializeOnboardingState(r)
    /\ UNCHANGED <<error, sessionStorage>>
    /\ UNCHANGED outsideWizard

\* the page is on screen: the first effect has run, nothing is loading and
\* no navigate() has left the wizard
Interactive == lastEvent.handler # "none" /\ navigated = Undefined

\* lines 113-115 when location or isAuthenticated changes afterwards
LocationOrAuthChange(loc, usr, r) ==
    /\ Interactive
    /\ <<loc, usr>> # <<location, user>>
    /\ StatusRequested(loc, usr) \/ r = NoStatus
    /\ location' = loc
    /\ user' = usr
    /\ InitializeOnboardingState(r)
    /\ UNCHANGED <<error, sessionStorage>>
    /\ UNCHANGED outsideWizard

\* what lines 992-1016 show below the progress bar: renderPhase1Content,
\* lines 589-709, in phase1, else renderPhase2Content, lines 711-916
Phase1Content(st) ==
    CASE st.phase1Step = "signup" -> "ProviderSignupForm"
      [] st.phase1Step = "business_info" ->
            IF Falsy(st.userId) THEN Null ELSE "BusinessInfoForm"
      [] st.phase1Step = "documents" ->
            IF Falsy(st.userId) THEN Null ELSE "DocumentUploadForm"
      [] st.phase1Step = "review" -> "ApplicationReviewPage"
      [] st.phase1Step = "submitted" -> "Application Submitted!"

Content(st) == IF st.phase = "phase1" THEN Phase1Content(st) ELSE st.phase2Step

\* lines 604-611 and 624-631: what the render does to the state when it
\* returns null
RenderGuard(st) ==
    IF st.phase = "phase1" /\ Phase1Content(st) = Null
    THEN [state |-> [st EXCEPT !.phase1Step = "signup"],
          error |-> "Please complete the signup process first."]
    ELSE [state |-> st, error |-> error]

Showing(content) == Interactive /\ Content(onboardingState) = content

SignupResponses ==
    {r \in [outcome : WizardOutcomes \ {"empty"}, status : {200, 409, 500},
            userId : {Undefined, "u1"}] :
        /\ r.outcome = "ok" => r.status = 200
        /\ r.outcome = "error" => r.status # 200 /\ r.userId = Undefined
        /\ r.outcome \in {"unparsable", "rejected"} =>
                r.status = 200 /\ r.userId = Undefined}

\* lines 238-262: what handleSignupComplete throws, Null when it throws
\* nothing
SignupIgnoresUserId(r) ==
    CASE r.outcome = "rejected" -> FetchRejected
      [] r.outcome = "unparsable" -> "Server response was not valid JSON"
      [] r.outcome = "error" /\ r.status = 409 ->
            "An account with this email already exists. Please use a different email or try logging in."
      [] r.outcome = "error" /\ r.status # 409 -> "Failed to create account"
      [] OTHER -> Null

SignupError(r) ==
    CASE r.outcome = "rejected" -> FetchRejected
      [] r.outcome = "unparsable" -> "Server response was not valid JSON"
      [] r.outcome = "error" /\ r.status = 409 ->
            "An account with this email already exists. Please use a different email or try logging in."
      [] r.outcome = "error" /\ r.status # 409 -> "Failed to create account"
      [] r.outcome = "ok" /\ Falsy(r.userId) -> "Invalid response: missing user data"
      [] OTHER -> Null

\* lines 226-277
HandleSignupComplete(r) ==
    /\ Showing("ProviderSignupForm")
    /\ IF SignupError(r) = Null
       THEN /\ onboardingState' =
                [onboardingState EXCEPT !.phase1Step = "business_info",
                                        !.userId = r.userId]
            /\ error' = Null
            /\ lastEvent' = WizardEvent("handleSignupComplete", r)
       ELSE /\ error' = SignupError(r)
            /\ lastEvent' = WizardEvent("handleSignupComplete", r)
            /\ UNCHANGED onboardingState
    /\ UNCHANGED <<location, user, sessionStorage, navigated>>
    /\ UNCHANGED outsideWizard

BusinessInfoResponses ==
    {r \in [outcome : WizardOutcomes, status : {200, 404, 500},
            businessId : {Undefined, "biz1"}] :
        /\ r.outcome = "ok" => r.status = 200
        /\ r.outcome = "error" => r.status # 200 /\ r.businessId = Undefined
        /\ r.outcome = "rejected" => r.status = 200
        /\ r.outcome \in {"unparsable", "empty", "rejected"} => r.businessId = Undefined}

\* lines 284-348
BusinessInfoError(st, r) ==
    CASE Falsy(st.userId) -> "User ID is missing. Please start the signup process again."
      [] ~Falsy(st.userId) /\ r.outcome = "rejected" -> FetchRejected
      [] ~Falsy(st.userId) /\ r.outcome = "unparsable" ->
            "Server returned invalid JSON response"
      [] ~Falsy(st.userId) /\ r.outcome = "empty" ->
            IF r.status >= 500 THEN "Server error occurred. Please try again later."
            ELSE IF r.status = 404 THEN "API endpoint not found. Please contact support."
            ELSE IF r.status >= 400
                 THEN "Request failed. Please check your data and try again."
            ELSE "Failed to process server response"
      [] ~Falsy(st.userId) /\ r.outcome = "error" -> "Failed to save business information"
      [] ~Falsy(st.userId) /\ r.outcome = "ok" /\ Falsy(r.businessId) ->
            "Invalid response: missing business data"
      [] OTHER -> Null

\* lines 279-365
HandleBusinessInfoComplete(r) ==
    /\ Showing("BusinessInfoForm")
    /\ IF BusinessInfoError(onboardingState, r) = Null
       THEN /\ onboardingState' =
                [onboardingState EXCEPT !.phase1Step = "documents",
                                        !.businessId = r.businessId]
            /\ error' = Null
            /\ lastEvent' = WizardEvent("handleBusinessInfoComplete", r)
       ELSE /\ error' = BusinessInfoError(onboardingState, r)
            /\ lastEvent' = WizardEvent("handleBusinessInfoComplete", r)
            /\ UNCHANGED onboardingState
    /\ UNCHANGED <<location, user, sessionStorage, navigated>>
    /\ UNCHANGED outsideWizard

\* lines 367-373
HandleDocumentsComplete ==
    /\ Showing("DocumentUploadForm")
    /\ onboardingState' = [onboardingState EXCEPT !.phase1Step = "review"]
    /\ lastEvent' = WizardEvent("handleDocumentsComplete", NoResponse)
    /\ UNCHANGED <<error, location, user, sessionStorage, navigated>>
    /\ UNCHANGED outsideWizard

SubmitResponses ==
    {r \in [outcome : {"ok", "unparsable", "error", "rejected"},
            status : {200, 400, 403, 500}] :
        r.outcome = "error" <=> r.status # 200}

\* lines 380-390: the ids a submission needs
SubmitMissingUserOnly(st) ==
    IF Falsy(st.userId)
    THEN "User ID is missing. Please start the signup process again."
    ELSE Null

SubmitMissing(st) ==
    IF Falsy(st.userId)
    THEN "User ID is missing. Please start the signup process again."
    ELSE IF Falsy(st.businessId)
    THEN "Business ID is missing. Please complete business information first."
    ELSE Null

\* lines 397-443; a success response whose body does not parse counts as
\* a success (lines 417-424), and lines 445-485 are never reached
SubmitError(st, r) ==
    IF SubmitMissing(st) # Null THEN SubmitMissing(st)
    ELSE CASE r.outcome = "rejected" -> FetchRejected
           [] r.outcome = "error" /\ r.status = 400 ->
                "Please ensure you have uploaded all required documents (Professional License, Professional Headshot, and Business License if applicable) before submitting your application."
           [] r.outcome = "error" /\ r.status = 404 ->
                "Business profile not found. Please complete the business information step first."
           [] r.outcome = "error" /\ r.status >= 500 ->
                "Server error occurred. Please try again later."
           [] r.outcome = "error" /\ r.status = 403 ->
                "Application submission failed (403). Please check your information and try again."
           [] OTHER -> Null

\* lines 375-498
HandleApplicationSubmit(r) ==
    /\ Showing("ApplicationReviewPage")
    /\ IF SubmitError(onboardingState, r) = Null
       THEN /\ onboardingState' = [onboardingState EXCEPT !.phase1Step = "submitted"]
            /\ error' = Null
            /\ lastEvent' = WizardEvent("handleApplicationSubmit", r)
       ELSE /\ error' = SubmitError(onboardingState, r)
            /\ lastEvent' = WizardEvent("handleApplicationSubmit", r)
            /\ UNCHANGED onboardingState
    /\ UNCHANGED <<location, user, sessionStorage, navigated>>
    /\ UNCHANGED outsideWizard

\* lines 500-515
EditSections == [user |-> "signup", business |-> "business_info", documents |-> "documents"]

HandleEditSection(section) ==
    /\ Showing("ApplicationReviewPage")
    /\ onboardingState' = [onboardingState EXCEPT !.phase1Step = EditSections[section]]
    /\ lastEvent' = WizardEvent("handleEditSection", NoResponse)
    /\ UNCHANGED <<error, location, user, sessionStorage, navigated>>
    /\ UNCHANGED outsideWizard

\* lines 517-523 with the buttons of lines 719-820: the step each phase 2
\* page navigates to
NextPhase2Step ==
    [welcome |-> "business_profile", business_profile |-> "personal_profile",
     personal_profile |-> "business_hours", business_hours |-> "staff_management",
     staff_management |-> "banking_payout", banking_payout |-> "service_pricing",
     service_pricing |-> "final_review"]

\* navigate() to a phase 2 route changes location, and the effect of lines
\* 113-115 runs initializePhase2 for it
HandlePhase2StepComplete ==
    /\ Interactive
    /\ onboardingState.phase = "phase2"
    /\ onboardingState.phase2Step \in DOMAIN NextPhase2Step
    /\ location' = Location(TRUE, NextPhase2Step[onboardingState.phase2Step])
    /\ InitializePhase2
    /\ UNCHANGED <<error, user, sessionStorage>>
    /\ UNCHANGED outsideWizard

\* lines 525-536 and 552-563, up to the timer
HandlePhase2Complete ==
    /\ \/ Showing("final_review")
       \/ Showing("stripe_setup")
    /\ onboardingState' =
            [onboardingState EXCEPT !.phase = "complete", !.phase2Step = "complete"]
    /\ lastEvent' = WizardEvent(IF onboardingState.phase2Step = "final_review"
                                THEN "handlePhase2Complete"
                                ELSE "handleStripeSetupComplete", NoResponse)
    /\ UNCHANGED <<error, location, user, sessionStorage, navigated>>
    /\ UNCHANGED outsideWizard

\* lines 538-543
HandleIdentityVerificationComplete ==
    /\ Showing("identity_verification")
    /\ onboardingState' = [onboardingState EXCEPT !.phase2Step = "bank_connection"]
    /\ lastEvent' = WizardEvent("handleIdentityVerificationComplete", NoResponse)
    /\ UNCHANGED <<error, location, user, sessionStorage, navigated>>
    /\ UNCHANGED outsideWizard

\* lines 545-550
HandleBankConnectionComplete ==
    /\ Showing("bank_connection")
    /\ onboardingState' = [onboardingState EXCEPT !.phase2Step = "stripe_setup"]
    /\ lastEvent' = WizardEvent("handleBankConnectionComplete", NoResponse)
    /\ UNCHANGED <<error, location, user, sessionStorage, navigated>>
    /\ UNCHANGED outsideWizard

\* the timer of lines 533-535 and 560-562
DashboardRedirect ==
    /\ Interactive
    /\ onboardingState.phase = "complete"
    /\ navigated' = "/provider-dashboard"
    /\ UNCHANGED <<onboardingState, error, location, user, sessionStorage, lastEvent>>
    /\ UNCHANGED outsideWizard

\* findIndex: the position counted from 0, or -1
FindIndex(steps, id) ==
    IF \E k \in 1..Len(steps) : steps[k] = id
    THEN (CHOOSE k \in 1..Len(steps) : steps[k] = id) - 1
    ELSE 0 - 1

\* Math.round of n / d for n >= 0, d > 0
MathRound(n, d) == (2 * n + d) \div (2 * d)

\* lines 565-575
getCurrentStepIndex(st) ==
    IF st.phase = "phase1" THEN FindIndex(phase1Steps, st.phase1Step)
    ELSE FindIndex(phase2Steps, st.phase2Step)

\* lines 577-581
getTotalSteps(st) == IF st.phase = "phase1" THEN Len(phase1Steps) ELSE Len(phase2Steps)

\* lines 583-587
getProgressPercentage(st) ==
    MathRound((getCurrentStepIndex(st) + 1) * 100, getTotalSteps(st))

\* line 933: "Step {currentStepIndex + 1} of {currentSteps.length}"
DisplayedStep(st) == getCurrentStepIndex(st) + 1

WizardUsers == {Undefined, "u1"}

InitWizard ==
    /\ InitRemote
    /\ business_documents = {}
    /\ InitLocal
    /\ InitPricing
    /\ InitProfile
    /\ InitAdminIdle
    /\ InitWizardState
    /\ location \in Locations
    /\ user \in WizardUsers
    /\ sessionStorage \in Sessions

WizardStep ==
    \/ \E r \in StatusResponses : MountEffect(r)
    \/ \E loc \in Locations, usr \in WizardUsers, r \in StatusResponses :
            LocationOrAuthChange(loc, usr, r)
    \/ \E r \in SignupResponses : HandleSignupComplete(r)
    \/ \E r \in BusinessInfoResponses : HandleBusinessInfoComplete(r)
    \/ HandleDocumentsComplete
    \/ \E r \in SubmitResponses : HandleApplicationSubmit(r)
    \/ \E section \in DOMAIN EditSections : HandleEditSection(section)
    \/ HandlePhase2StepComplete
    \/ HandlePhase2Complete
    \/ HandleIdentityVerificationComplete
    \/ HandleBankConnectionComplete
    \/ DashboardRedirect

NextWizard == WizardStep

SpecWizard == InitWizard /\ [][NextWizard]_vars

\* ------------------------------------------------------------------------
\* The service pricing step.  Clicks are at least a millisecond apart, so
\* the clock has moved on when the next service is added
\* ------------------------------------------------------------------------
MaxAdds == 3

\* what the fields of the dialog can hold (lines 343-372)
ServiceDrafts ==
    [name : {"", "Deep Cleaning"}, description : {"", "All rooms"},
     basePrice : {0 - 5, 0, 50}]

\* what the tax rate field can hold (lines 308-317)
TaxRates == {0 - 1, 0}

SaveOutcomes == {"ok", "error", "rejected"}

PricingOp(op, id, outcome) == [op |-> op, id |-> id, ok |-> outcome]

\* the step is on screen until it has called onComplete
PricingOpen == servicePricing.onComplete = <<>>

\* the dialog trigger of lines 324-331 and the button of lines 431-434
OpenAddServiceModal ==
    /\ PricingOpen
    /\ ~servicePricing.showAddServiceModal
    /\ servicePricing' =
        [servicePricing EXCEPT !.showAddServiceModal = TRUE, !.opened = "add"]
    /\ UNCHANGED <<now, pricingData, newService>>
    /\ UNCHANGED outsidePricing

\* Cancel, lines 408-410, and onOpenChange, line 324
CloseAddServiceModal ==
    /\ PricingOpen
    /\ servicePricing.showAddServiceModal
    /\ servicePricing' =
        [servicePricing EXCEPT !.showAddServiceModal = FALSE, !.opened = "none"]
    /\ UNCHANGED <<now, pricingData, newService>>
    /\ UNCHANGED outsidePricing

\* the onChange handlers of lines 343-372
SetNewService(draft) ==
    /\ PricingOpen
    /\ servicePricing.showAddServiceModal
    /\ draft # newService
    /\ newService' = draft
    /\ UNCHANGED <<now, pricingData, servicePricing>>
    /\ UNCHANGED outsidePricing

\* line 130
AddServiceRejected(draft) ==
    draft.name = "" \/ draft.description = "" \/ draft.basePrice <= 0

\* lines 135-140: the id is Date.now().toString()
NewServiceOf(draft, t) ==
    [id |-> t, name |-> draft.name, description |-> draft.description,
     basePrice |-> draft.basePrice]

\* lines 129-156: the Add Service button of the dialog, lines 411-413,
\* which is also the only button that confirms a dialog opened by Edit
AddService ==
    /\ PricingOpen
    /\ servicePricing.showAddServiceModal
    /\ now < MaxAdds
    /\ LET op == IF servicePricing.opened = "edit" THEN "confirm" ELSE "add"
       IN IF AddServiceRejected(newService)
          THEN /\ servicePricing' =
                    [servicePricing EXCEPT
                        !.error = "Please fill in all required fields and set a valid price",
                        !.lastOp = PricingOp(op, 0, FALSE)]
               /\ UNCHANGED <<now, pricingData, newService>>
          ELSE /\ pricingData' =
                    [pricingData EXCEPT
                        !.services = Append(@, NewServiceOf(newService, now))]
               /\ newService' = EmptyService
               /\ servicePricing' =
                    [servicePricing EXCEPT
                        !.showAddServiceModal = FALSE, !.opened = "none",
                        !.error = Null, !.lastOp = PricingOp(op, now, TRUE)]
               /\ now' = now + 1
    /\ UNCHANGED outsidePricing

\* lines 457-470: the Edit button of the service at position k
EditService(k) ==
    /\ PricingOpen
    /\ ~servicePricing.showAddServiceModal
    /\ k \in 1..Len(pricingData.services)
    /\ LET service == pricingData.services[k]
       IN /\ servicePricing' =
                [servicePricing EXCEPT
                    !.editingService = <<service>>,
                    !.showAddServiceModal = TRUE, !.opened = "edit"]
          /\ newService' = [name |-> service.name, description |-> service.description,
                            basePrice |-> service.basePrice]
    /\ UNCHANGED <<now, pricingData>>
    /\ UNCHANGED outsidePricing

\* lines 167-172 from the button of lines 474-481
RemoveService(k) ==
    /\ PricingOpen
    /\ ~servicePricing.showAddServiceModal
    /\ k \in 1..Len(pricingData.services)
    /\ LET id == pricingData.services[k].id
           Keep(service) == service.id # id
       IN /\ pricingData' = [pricingData EXCEPT !.services = SelectSeq(@, Keep)]
          /\ servicePricing' = [servicePricing EXCEPT !.lastOp = PricingOp("remove", id, TRUE)]
    /\ UNCHANGED <<now, newService>>
    /\ UNCHANGED outsidePricing

\* lines 122-127 from the tax rate field
UpdateTaxRate(rate) ==
    /\ PricingOpen
    /\ ~servicePricing.showAddServiceModal
    /\ rate # pricingData.taxRate
    /\ pricingData' = [pricingData EXCEPT !.taxRate = rate]
    /\ UNCHANGED <<now, newService, servicePricing>>
    /\ UNCHANGED outsidePricing

\* lines 174-184: how many of the four parts are filled in; the page shows
\* it as a percentage, and 100 is all four
PricingPartsCompleted(data) ==
    (IF data.pricingModel # "" THEN 1 ELSE 0) + (IF data.currency # "" THEN 1 ELSE 0)
        + (IF data.taxRate >= 0 THEN 1 ELSE 0)
        + (IF Len(data.services) > 0 THEN 1 ELSE 0)

\* lines 220-222
canSubmit(data) == PricingPartsCompleted(data) = 4

\* lines 186-218 from the button of lines 518-521
HandlePricingSubmit(outcome) ==
    /\ PricingOpen
    /\ ~servicePricing.showAddServiceModal
    /\ canSubmit(pricingData)
    /\ servicePricing' =
        [servicePricing EXCEPT
            !.error = CASE outcome = "ok" -> Null
                        [] outcome = "error" -> "Failed to save service pricing data"
                        [] outcome = "rejected" -> FetchRejected,
            !.onComplete = IF outcome = "ok" THEN <<pricingData>> ELSE <<>>,
            !.lastOp = PricingOp("submit", 0, outcome = "ok")]
    /\ UNCHANGED <<now, pricingData, newService>>
    /\ UNCHANGED outsidePricing

InitPricingStep ==
    /\ InitRemote
    /\ business_documents = {}
    /\ InitLocal
    /\ InitFrontend

NextPricing ==
    \/ OpenAddServiceModal
    \/ CloseAddServiceModal
    \/ \E draft \in ServiceDrafts : SetNewService(draft)
    \/ AddService
    \/ \E k \in 1..MaxAdds : EditService(k)
    \/ \E k \in 1..MaxAdds : RemoveService(k)
    \/ \E rate \in TaxRates : UpdateTaxRate(rate)
    \/ \E outcome \in SaveOutcomes : HandlePricingSubmit(outcome)

SpecPricing == InitPricingStep /\ [][NextPricing]_vars

\* ------------------------------------------------------------------------
\* The personal profile step.  ImageUploadService is given by what the
\* component reads of its results: validateImage accepts a file or not,
\* uploadImage answers with a public URL, answers with an error, or throws
\* ------------------------------------------------------------------------
ImageFile == "photo.png"
StoredUrl == "stored.png"

\* the URL the storage gives the file uploaded as the avatar or the cover
UploadedUrl(t) == IF t = "avatar" THEN "avatar/photo.png" ELSE "cover/photo.png"

\* the form data field of an image, lines 314 and 351
ImageField(data, t) == IF t = "avatar" THEN data.avatarUrl ELSE data.coverImageUrl

WithImageField(data, t, url) ==
    IF t = "avatar" THEN [data EXCEPT !.avatarUrl = url]
    ELSE [data EXCEPT !.coverImageUrl = url]

\* what the text fields can hold
ValidTexts ==
    [professionalTitle |-> "Stylist", bioLength |-> 100, yearsExperience |-> 5,
     website |-> Undefined]

ProfileTexts ==
    {ValidTexts,
     [ValidTexts EXCEPT !.professionalTitle = ""],
     [ValidTexts EXCEPT !.bioLength = 99],
     [ValidTexts EXCEPT !.yearsExperience = 51],
     [ValidTexts EXCEPT !.website = "not a url"]}

WithTexts(data, texts) ==
    [data EXCEPT !.professionalTitle = texts.professionalTitle,
                 !.bioLength = texts.bioLength,
                 !.yearsExperience = texts.yearsExperience,
                 !.website = texts.website]

\* what GET /api/provider/profile/:userId can answer with: nothing usable,
\* or a stored profile
StoredProfiles ==
    {[professionalTitle |-> "Stylist", bioLength |-> 100, yearsExperience |-> 5,
      website |-> Undefined, avatarUrl |-> StoredUrl, coverImageUrl |-> Undefined]}

\* the step is on screen until it has called onComplete
ProfileOpen == personalProfile.onComplete = <<>>

\* lines 130-143: the request of the mount effect, answered at any time
LoadExistingData(outcome) ==
    /\ ProfileOpen
    /\ ~personalProfile.loaded
    /\ personalProfile' = [personalProfile EXCEPT !.loaded = TRUE]
    /\ \/ /\ outcome = "ok"
          /\ formData' \in StoredProfiles
       \/ /\ outcome # "ok"
          /\ UNCHANGED formData
    /\ UNCHANGED imageUpload
    /\ UNCHANGED outsideProfile

\* lines 386-393: new URL() of the text, with https:// put before it
isValidUrl(url) == url # "not a url"

\* lines 358-384: the keys of errors
ValidationErrors(data) ==
    (IF data.professionalTitle = "" THEN {"professionalTitle"} ELSE {})
        \cup (IF data.bioLength < 100 THEN {"professionalBio"} ELSE {})
        \cup (IF data.yearsExperience < 0 \/ data.yearsExperience > 50
              THEN {"yearsExperience"} ELSE {})
        \cup (IF ~Falsy(data.website) /\ ~isValidUrl(data.website)
              THEN {"social_website"} ELSE {})

\* lines 152-158: the validation errors an input change clears; a change
\* of a social link, lines 161-169, clears none
ChangedKeys(data, texts) ==
    (IF data.professionalTitle # texts.professionalTitle
     THEN {"professionalTitle"} ELSE {})
        \cup (IF data.bioLength # texts.bioLength THEN {"professionalBio"} ELSE {})
        \cup (IF data.yearsExperience # texts.yearsExperience
              THEN {"yearsExperience"} ELSE {})

\* lines 145-169
HandleInputChange(texts) ==
    /\ ProfileOpen
    /\ WithTexts(formData, texts) # formData
    /\ formData' = WithTexts(formData, texts)
    /\ personalProfile' =
        [personalProfile EXCEPT
            !.validationErrors = @ \ ChangedKeys(formData, texts)]
    /\ UNCHANGED imageUpload
    /\ UNCHANGED outsideProfile

\* lines 246-286
HandleImageSelect(t, valid) ==
    /\ ProfileOpen
    /\ imageUpload' =
        [imageUpload EXCEPT ![t] =
            IF valid THEN [NoImage EXCEPT !.file = ImageFile]
            ELSE [NoImage EXCEPT !.error = "invalid image"]]
    /\ UNCHANGED <<formData, personalProfile>>
    /\ UNCHANGED outsideProfile

UploadResults == {"ok", "error", "throw"}

\* lines 295-332: the upload state after the upload has been answered
UploadedState(upload, t, result) ==
    IF result = "ok"
    THEN [upload EXCEPT !.uploading = FALSE, !.uploaded = TRUE,
                        !.url = UploadedUrl(t), !.error = Undefined]
    ELSE [upload EXCEPT !.uploading = FALSE, !.error = "Upload failed"]

\* lines 288-333 from the Upload button, lines 537-550
UploadImage(t, result) ==
    /\ ProfileOpen
    /\ imageUpload[t].file # Null
    /\ ~imageUpload[t].uploaded
    /\ imageUpload' = [imageUpload EXCEPT ![t] = UploadedState(@, t, result)]
    /\ formData' = IF result = "ok" THEN WithImageField(formData, t, UploadedUrl(t))
                   ELSE formData
    /\ UNCHANGED personalProfile
    /\ UNCHANGED outsideProfile

\* lines 335-356
RemoveImage(t) ==
    /\ ProfileOpen
    /\ imageUpload[t].file # Null \/ ~Falsy(ImageField(formData, t))
    /\ imageUpload' = [imageUpload EXCEPT ![t] = NoImage]
    /\ formData' = WithImageField(formData, t, Undefined)
    /\ UNCHANGED personalProfile
    /\ UNCHANGED outsideProfile

\* lines 406-411: the images handleSubmit uploads itself
Pending(uploads, t) == uploads[t].file # Null /\ ~uploads[t].uploaded

\* the answers a run of handleSubmit gets to read: none when the validation
\* fails (line 400), an upload's only for a pending image, the progress
\* save's only after a PUT answered ok (line 423); the others are fixed
SubmitReads(results, put, progress) ==
    /\ \A t \in ImageTypes :
            (ValidationErrors(formData) # {} \/ ~Pending(imageUpload, t))
                => results[t] = "ok"
    /\ ValidationErrors(formData) # {} => put = "ok"
    /\ (ValidationErrors(formData) # {} \/ put # "ok") => progress = "ok"

\* lines 395-444.  formData inside handleSubmit is the constant of the
\* render the click came from: the setFormData calls of the uploadImage
\* runs it awaits change the state, and the body of the PUT (417-420) and
\* the argument of onComplete (438) are still built from that constant
HandleProfileSubmit(results, put, progress) ==
    /\ ProfileOpen
    /\ SubmitReads(results, put, progress)
    /\ IF ValidationErrors(formData) # {}
       THEN /\ personalProfile' =
                [personalProfile EXCEPT
                    !.validationErrors = ValidationErrors(formData),
                    !.error = "Please fix the errors above"]
            /\ UNCHANGED <<formData, imageUpload>>
       ELSE /\ imageUpload' =
                [t \in ImageTypes |->
                    IF Pending(imageUpload, t)
                    THEN UploadedState(imageUpload[t], t, results[t])
                    ELSE imageUpload[t]]
            /\ formData' =
                [formData EXCEPT
                    !.avatarUrl =
                        IF Pending(imageUpload, "avatar") /\ results["avatar"] = "ok"
                        THEN UploadedUrl("avatar") ELSE @,
                    !.coverImageUrl =
                        IF Pending(imageUpload, "cover") /\ results["cover"] = "ok"
                        THEN UploadedUrl("cover") ELSE @]
            /\ personalProfile' =
                [personalProfile EXCEPT
                    !.validationErrors = {},
                    !.put = <<[body |-> formData, ok |-> put = "ok"]>>,
                    !.error =
                        CASE put = "error" -> "Failed to save personal profile"
                          [] put = "rejected" -> FetchRejected
                          [] put = "ok" /\ progress = "rejected" -> FetchRejected
                          [] OTHER -> Null,
                    !.onComplete =
                        IF put = "ok" /\ progress # "rejected"
                        THEN <<formData>> ELSE <<>>]
    /\ UNCHANGED outsideProfile

InitProfileStep ==
    /\ InitRemote
    /\ business_documents = {}
    /\ InitLocal
    /\ InitFrontend

NextProfile ==
    \/ \E outcome \in SaveOutcomes : LoadExistingData(outcome)
    \/ \E texts \in ProfileTexts : HandleInputChange(texts)
    \/ \E t \in ImageTypes, valid \in BOOLEAN : HandleImageSelect(t, valid)
    \/ \E t \in ImageTypes, result \in UploadResults : UploadImage(t, result)
    \/ \E t \in ImageTypes : RemoveImage(t)
    \/ \E results \in [ImageTypes -> UploadResults], put \in SaveOutcomes,
          progress \in SaveOutcomes : HandleProfileSubmit(results, put, progress)

SpecProfile == InitProfileStep /\ [][NextProfile]_vars

\* ------------------------------------------------------------------------
\* The admin endpoint api/admin/debug-user-business.ts.  The businesses
\* have distinct created_at values
\* ------------------------------------------------------------------------
AuthUsers ==
    {[id |-> "u1", email |-> "u1@example.com"],
     [id |-> "u2", email |-> "u2@example.com"]}

AdminBusinessProfiles ==
    [b \in {"biz1", "biz2"} |->
        [id |-> b, business_type |-> "llc", verification_status |-> "pending",
         setup_step |-> 1, created_at |-> IF b = "biz1" THEN 1 ELSE 2]]

\* a row of the providers table, lines 101-110
ProviderRow(userId, businessId, email, role) ==
    [user_id |-> userId, business_id |-> businessId, email |-> email,
     provider_role |-> role]

\* the rows the first user can have, one at most for a business, next to
\* the row of the second user
InitialProviders ==
    LET RowsOf(b) ==
            {{}} \cup {{ProviderRow("u1", b, "u1@example.com", role)} :
                            role \in {"owner", "provider"}}
    IN {r1 \cup r2 \cup {ProviderRow("u2", "biz2", "u2@example.com", "owner")} :
            r1 \in RowsOf("biz1"), r2 \in RowsOf("biz2")}

\* what a request can hold; userId, email and fixRelationships are in the
\* query of a GET and in the body of a POST
DebugRequests ==
    [method : {"OPTIONS", "GET", "POST", "DELETE"},
     userId : {Undefined, "u1", "nobody"},
     email : {Undefined, "u1@example.com", "nobody@example.com"},
     fixRelationships : BOOLEAN]

\* how the calls to Supabase go
DebugAnswers ==
    [listUsers : {"ok", "error"}, getUserById : {"ok", "error"},
     providers : {"ok", "error"}, businesses : {"ok", "error"},
     upsert : Outcomes]

DebugDone(status, message) == [status |-> status, message |-> message, write |-> <<>>]

\* the sort of lines 89-92 with a and b exchanged
OldestBusiness(businessProfiles) ==
    CHOOSE b \in businessProfiles :
        \A other \in businessProfiles : other.created_at >= b.created_at

\* lines 89-92: the first of the profiles sorted by created_at, latest first
LatestBusiness(businessProfiles) ==
    CHOOSE b \in businessProfiles :
        \A other \in businessProfiles : other.created_at <= b.created_at

\* lines 94-97
ExistingProvider(providerRecords, latestBusiness) ==
    \E p \in providerRecords :
        p.business_id = latestBusiness.id /\ p.provider_role = "owner"

\* lines 34, 43-47: the user a request is about, <<>> when there is none
LookupByEmail(req) == ~Falsy(req.email) /\ Falsy(req.userId)

TargetUser(req) ==
    LET found == {u \in AuthUsers :
                    IF LookupByEmail(req) THEN u.email = req.email
                    ELSE u.id = req.userId}
    IN IF found = {} THEN <<>> ELSE <<CHOOSE u \in found : TRUE>>

\* lines 58-61
ProviderRecords(rows, userId, ans) ==
    IF ans.providers = "ok" THEN {p \in rows : p.user_id = userId} ELSE {}

\* lines 68-81
BusinessProfiles(businesses, providerRecords, ans) ==
    IF providerRecords # {} /\ ans.businesses = "ok"
    THEN {businesses[b] :
            b \in {p.business_id : p \in providerRecords} \cap DOMAIN businesses}
    ELSE {}

\* lines 84-130: the fix of a POST
DebugFix(req, ans, userRecord, providerRecords, businessProfiles) ==
    IF req.method = "POST" /\ req.fixRelationships /\ businessProfiles # {}
       /\ ~ExistingProvider(providerRecords, LatestBusiness(businessProfiles))
    THEN CASE ans.upsert = "ok" ->
                [status |-> 200, message |-> "Fixed provider relationship",
                 write |-> <<ProviderRow(userRecord.id,
                                         LatestBusiness(businessProfiles).id,
                                         userRecord.email, "owner")>>]
           [] ans.upsert = "error" ->
                DebugDone(500, "Failed to fix provider relationship")
           [] OTHER -> DebugDone(500, "Internal server error")
    ELSE DebugDone(200, "summary")

\* lines 9-155: the response, and the row the handler writes
DebugResult(req, ans, rows, businesses) ==
    CASE req.method = "OPTIONS" -> DebugDone(200, "")
      [] req.method \notin {"OPTIONS", "GET", "POST"} ->
            DebugDone(405, "Method not allowed")
      [] OTHER ->
            IF Falsy(req.userId) /\ Falsy(req.email)
            THEN DebugDone(400, "userId or email is required")
            ELSE IF LookupByEmail(req) /\ ans.listUsers = "error"
            THEN DebugDone(500, "Failed to lookup user by email")
            ELSE IF LookupByEmail(req) /\ TargetUser(req) = <<>>
            THEN DebugDone(404, "User not found")
            ELSE IF ans.getUserById = "error" \/ TargetUser(req) = <<>>
            THEN DebugDone(404, "User not found")
            ELSE LET userRecord == TargetUser(req)[1]
                     providerRecords == ProviderRecords(rows, userRecord.id, ans)
                     businessProfiles ==
                         BusinessProfiles(businesses, providerRecords, ans)
                 IN DebugFix(req, ans, userRecord, providerRecords, businessProfiles)

\* line 112: onConflict "user_id,business_id"
Upsert(rows, row) ==
    {p \in rows : p.user_id # row.user_id \/ p.business_id # row.business_id}
        \cup {row}

\* an answer that no line of the run reads is kept at ok
DebugReads(req, ans) ==
    /\ req.method \notin {"GET", "POST"} =>
            /\ req = [NoRequest EXCEPT !.method = req.method]
            /\ ans.getUserById = "ok" /\ ans.providers = "ok"
            /\ ans.businesses = "ok"
    /\ ~(req.method \in {"GET", "POST"} /\ LookupByEmail(req)) => ans.listUsers = "ok"
    /\ ~(req.method = "POST" /\ req.fixRelationships) => ans.upsert = "ok"
    /\ TargetUser(req) = <<>> =>
            /\ ans.getUserById = "ok" /\ ans.providers = "ok"
            /\ ans.businesses = "ok" /\ ans.upsert = "ok"
    /\ ans.getUserById = "error" =>
            ans.providers = "ok" /\ ans.businesses = "ok" /\ ans.upsert = "ok"

\* lines 9-155
DebugUserBusiness(req, ans) ==
    /\ DebugReads(req, ans)
    /\ LET result == DebugResult(req, ans, providers, business_profiles)
       IN /\ providers' = IF result.write = <<>> THEN providers
                          ELSE Upsert(providers, result.write[1])
          /\ debugCall' =
                [request |-> req, status |-> result.status,
                 message |-> result.message, wrote |-> result.write # <<>>,
                 fixed |-> IF result.write # <<>> THEN <<req>> ELSE debugCall.fixed]
    /\ UNCHANGED business_profiles
    /\ UNCHANGED outsideAdmin

InitAdmin ==
    /\ now = 0
    /\ storage = {}
    /\ business_documents = {}
    /\ nextId = 1
    /\ business_profiles = AdminBusinessProfiles
    /\ InitLocal
    /\ InitWizardIdle
    /\ InitPricing
    /\ InitProfile
    /\ providers \in InitialProviders
    /\ debugCall = NoCall

NextAdmin == \E req \in DebugRequests, ans \in DebugAnswers : DebugUserBusiness(req, ans)

SpecAdmin == InitAdmin /\ [][NextAdmin]_vars

\* ------------------------------------------------------------------------
\* Reading the state
\* ------------------------------------------------------------------------
FileIndexes(p) == 0..(Len(files[p]) - 1)

\* the positions in trace[p] of the events op of the file at position k
EventsOf(p, op, k) ==
    {n \in 1..Len(trace[p]) : trace[p][n].op = op /\ trace[p][n].file = k}

EventsWith(p, op, k, outcomes) ==
    {n \in EventsOf(p, op, k) : trace[p][n].outcome \in outcomes}

ErrorsOf(p, k) == {n \in 1..Len(errors[p]) : errors[p][n].file = k}

\* the loop has left the file at position k behind
Finished(p, k) == k < i[p]

\* the types the files at position k resolved to (one once it is resolved)
ResolvedTypes(p, k) == {trace[p][n].outcome : n \in EventsOf(p, "resolve", k)}

\* the entries of the mapping of p and the name of its file at position k
EntriesOf(p) == mappings[p].entries
NameOf(p, k) == files[p][k + 1].originalname

\* the batch got past lines 93-141
PassedPreconditions(p) == businessProfile[p] # NoProfile

StructuredResult(p) == pc[p] = "done" /\ response[p].kind = "result"

NewRecords == {d \in business_documents : d.file_url.path.ts > 0}
HadNoDocuments == \A b \in storage : b.by[1] # "old"

PreconditionMessages ==
    { "Missing userId or businessId", "No files uploaded", "Invalid document mappings",
      "Business profile not found or not owned by user", "Business profile not found" }

\* ------------------------------------------------------------------------
\* C1: a record is inserted only after the storage write of the same file
\* returned success, it refers to a blob that is in the bucket, and a file
\* whose write failed gets no insert and no delete.
\* ------------------------------------------------------------------------
C1_RecordOnlyAfterWrite ==
    /\ \A d \in NewRecords :
        /\ d.file_url.path \in Paths
        /\ \E p \in Procs : \E n \in 1..Len(trace[p]) :
              /\ trace[p][n].op = "upload"
              /\ trace[p][n].outcome = "ok"
              /\ trace[p][n].path = d.file_url.path
    /\ \A p \in Procs : \A n \in 1..Len(trace[p]) :
        trace[p][n].op = "insert" =>
            \E m \in 1..(n - 1) :
                /\ trace[p][m].op = "upload"
                /\ trace[p][m].file = trace[p][n].file
                /\ trace[p][m].path = trace[p][n].path
                /\ trace[p][m].outcome = "ok"
    /\ \A p \in Procs : \A k \in FileIndexes(p) :
        EventsWith(p, "upload", k, {"error", "maximum allowed size", "throw"}) # {}
            => /\ EventsOf(p, "insert", k) = {}
               /\ EventsOf(p, "remove", k) = {}

C1_Witness ==
    \E p \in Procs :
        /\ EventsWith(p, "upload", 0, {"error"}) # {}
        /\ EventsWith(p, "insert", 1, {"ok"}) # {}
        /\ NewRecords # {}

\* ------------------------------------------------------------------------
\* C2: a file whose write succeeded and whose insert failed gets exactly one
\* delete attempt and a per-file error and is not in uploaded; a batch of
\* that one file ends with uploaded empty and one error.
\* ------------------------------------------------------------------------
C2_RollbackOnInsertFailure ==
    \A p \in Procs : \A k \in FileIndexes(p) :
        ( /\ Finished(p, k)
          /\ EventsWith(p, "upload", k, {"ok"}) # {}
          /\ EventsWith(p, "insert", k, {"error"}) # {} )
        => /\ Cardinality(EventsOf(p, "remove", k)) = 1
           /\ ErrorsOf(p, k) # {}
           /\ EventsWith(p, "insert", k, {"ok"}) = {}
           /\ (Len(files[p]) = 1 /\ StructuredResult(p)) =>
                /\ response[p].uploaded = <<>>
                /\ Len(response[p].errors) = 1

\* ------------------------------------------------------------------------
\* C3: a failed compensating delete, returned or raised, adds no entry to
\* errors beyond the insert-failure error of that file.
\* ------------------------------------------------------------------------
C3_DeleteFailureNotSurfaced ==
    \A p \in Procs : \A k \in FileIndexes(p) :
        ( /\ Finished(p, k)
          /\ EventsWith(p, "remove", k, {"error", "throw"}) # {} )
        => /\ Cardinality(ErrorsOf(p, k)) = 1
           /\ \A n \in ErrorsOf(p, k) : errors[p][n].kind = "record"

C5_EveryFileValidated ==
    \A p \in Procs :
        (pc[p] = "done" /\ PassedPreconditions(p)) =>
            \A k \in FileIndexes(p) : EventsOf(p, "validate", k) # {}

\* ------------------------------------------------------------------------
\* C6: once the preconditions have passed the handler ends with the
\* structured result, never with a top-level error.
\* ------------------------------------------------------------------------
C6_AlwaysStructuredResult ==
    \A p \in Procs :
        (pc[p] = "done" /\ PassedPreconditions(p)) => response[p].kind = "result"

\* ------------------------------------------------------------------------
\* C7: when a precondition fails the handler returns one top-level error
\* and has made no storage write, record insert, delete or profile update.
\* ------------------------------------------------------------------------
PreconditionFails(p) ==
    /\ body[p] # NoBody
    /\ \/ body[p].userId = ""
       \/ body[p].businessId = ""
       \/ files[p] = <<>>
       \/ body[p].documentMappings.kind = "invalid"
       \/ ~(body[p].userId = "u1" /\ body[p].businessId \in {"biz1", "biz2"})
       \/ body[p].businessId # "biz1"

RejectedByPrecondition(p) ==
    /\ response[p].kind = "error"
    /\ response[p].error \in PreconditionMessages

C7_PreconditionFailureNoEffect ==
    \A p \in Procs :
        (PreconditionFails(p) \/ RejectedByPrecondition(p)) =>
            /\ trace[p] = <<>>
            /\ uploadedDocuments[p] = <<>>
            /\ errors[p] = <<>>
            /\ \A b \in storage : b.by[1] # p
            /\ NewRecords = {}
            /\ pc[p] = "done" => response[p].kind = "error"

C7_Witness ==
    \E p \in Procs :
        /\ pc[p] = "done"
        /\ files[p] # <<>>
        /\ body[p].userId = "u2"
        /\ response[p] = ErrorResponse(404, "Business profile not found or not owned by user")

\* ------------------------------------------------------------------------
\* C8: two files of one batch for which a storage write is attempted get
\* distinct locators.
\* ------------------------------------------------------------------------
C8_DistinctLocators ==
    \A p \in Procs : \A m, n \in 1..Len(trace[p]) :
        (m # n /\ trace[p][m].op = "upload" /\ trace[p][n].op = "upload")
            => trace[p][m].path # trace[p][n].path

\* ------------------------------------------------------------------------
\* C9: a batch that persisted at least one file for a business that had no
\* document record before leaves setup_step at 2 or more when it completes.
\* ------------------------------------------------------------------------
C9_FirstUploadAdvancesStep ==
    \A p \in Procs :
        (StructuredResult(p) /\ Len(response[p].uploaded) > 0 /\ HadNoDocuments)
            => business_profiles[body[p].businessId].setup_step >= 2

\* ------------------------------------------------------------------------
\* C10: no step of the handler lowers a business's setup_step.
\* ------------------------------------------------------------------------
C10_SetupStepMonotonic ==
    [][\A b \in ProfileIds :
            business_profiles'[b].setup_step >= business_profiles[b].setup_step]_vars

\* ------------------------------------------------------------------------
\* C11: in the result allRequiredUploaded is true exactly when every label
\* of the required set (the four base types, plus business_license when
\* the business is not a sole proprietorship) is the document type of a
\* record of the business with status pending, verified or under_review.
\* ------------------------------------------------------------------------
C11_Qualifying(businessId) ==
    {d.document_type : d \in
        {r \in business_documents :
            /\ r.business_id = businessId
            /\ r.verification_status \in {"pending", "verified", "under_review"}}}

C11_Required(businessType) ==
    {"drivers_license", "proof_of_address", "professional_license",
     "professional_certificate"}
        \cup (IF businessType # "sole_proprietorship" THEN {"business_license"} ELSE {})

C11_ReadinessFlag ==
    \A p \in Procs :
        StructuredResult(p) =>
            (response[p].allRequiredUploaded
                <=> C11_Required(businessProfile[p].business_type)
                        \subseteq C11_Qualifying(body[p].businessId))

\* ------------------------------------------------------------------------
\* C12: a rejected record never counts: when the result says
\* allRequiredUploaded every required type has a record of the business
\* that is not rejected; and the records the batch created are exactly
\* those of the entries of uploaded, so a failed file contributes none.
\* ------------------------------------------------------------------------
UploadedIds(p) == {uploadedDocuments[p][n].id : n \in 1..Len(uploadedDocuments[p])}

C12_RejectedNeverCounts ==
    /\ {d.id : d \in NewRecords} = UNION {UploadedIds(p) : p \in Procs}
    /\ \A p \in Procs :
        (StructuredResult(p) /\ response[p].allRequiredUploaded) =>
            \A t \in C11_Required(businessProfile[p].business_type) :
                \E d \in business_documents :
                    /\ d.business_id = body[p].businessId
                    /\ d.document_type = t
                    /\ d.verification_status # "rejected"

C12_Witness ==
    \E p \in Procs :
        /\ StructuredResult(p)
        /\ ~response[p].allRequiredUploaded
        /\ Len(response[p].errors) > 0
        /\ {"proof_of_address", "professional_license", "professional_certificate"}
                \subseteq C11_Qualifying(body[p].businessId)
        /\ \E d \in business_documents :
                d.document_type = "drivers_license" /\ d.verification_status = "rejected"
        /\ \A d \in business_documents :
                d.document_type = "drivers_license" => d.verification_status = "rejected"

\* ------------------------------------------------------------------------
\* C13: the result partitions the batch: every file is either one entry of
\* uploaded or one entry of errors, so the two lists together have as many
\* entries as the batch has files.
\* ------------------------------------------------------------------------
C13_ResultPartitionsBatch ==
    \A p \in Procs :
        StructuredResult(p) =>
            /\ Len(response[p].uploaded) + Len(response[p].errors) = Len(files[p])
            /\ \A k \in FileIndexes(p) :
                Cardinality(EventsWith(p, "insert", k, {"ok"}))
                    + Cardinality({n \in 1..Len(response[p].errors) :
                                        response[p].errors[n].file = k}) = 1

\* ------------------------------------------------------------------------
\* C14: every entry of uploaded has its own record, created by the batch
\* with status pending for the file of the entry, the batch creates no
\* other record, and no step of the handler changes or removes a record
\* that exists.
\* ------------------------------------------------------------------------
C14_RecordsOfUploaded ==
    /\ \A p \in Procs :
        /\ Cardinality(UploadedIds(p)) = Len(uploadedDocuments[p])
        /\ \A n \in 1..Len(uploadedDocuments[p]) :
            LET e == uploadedDocuments[p][n]
                rows == {d \in NewRecords : d.id = e.id}
            IN /\ Cardinality(rows) = 1
               /\ \A d \in rows :
                    /\ d.verification_status = "pending"
                    /\ d.business_id = body[p].businessId
                    /\ d.document_type = e.documentType
                    /\ d.document_name = e.fileName
                    /\ d.file_url = e.url
    /\ \A p, q \in Procs : p # q => UploadedIds(p) \cap UploadedIds(q) = {}
    /\ Cardinality(NewRecords) = Cardinality(UNION {UploadedIds(p) : p \in Procs})

C14_OneRecordPerUpload ==
    /\ []C14_RecordsOfUploaded
    /\ [][\A d \in business_documents : d \in business_documents']_vars

C14_Witness ==
    \E p \in Procs :
        /\ StructuredResult(p)
        /\ Len(response[p].uploaded) = 2
        /\ Cardinality(NewRecords) = 2
        /\ Cardinality(business_documents) > 2

C16_ConcurrentBatchesSafe ==
    /\ \A p \in Procs : \A n \in 1..Len(uploadedDocuments[p]) :
        LET e == uploadedDocuments[p][n] IN
        /\ \E d \in business_documents :
                /\ d.id = e.id
                /\ d.business_id = body[p].businessId
                /\ d.file_url = e.url
        /\ \E b \in storage : b.path = e.url.path /\ b.by[1] = p
        /\ \A b \in storage : b.path = e.url.path => b.by[1] = p
    /\ \A p, q \in Procs : p # q => UploadedIds(p) \cap UploadedIds(q) = {}
    /\ \A p \in Procs : Cardinality(UploadedIds(p)) = Len(uploadedDocuments[p])

C16_Witness ==
    /\ \A p \in Procs : StructuredResult(p) /\ Len(response[p].uploaded) = 1
    /\ response["b1"].uploaded[1].documentType = response["b2"].uploaded[1].documentType
    /\ response["b1"].uploaded[1].url # response["b2"].uploaded[1].url
    /\ response["b1"].uploaded[1].id # response["b2"].uploaded[1].id

\* ------------------------------------------------------------------------
\* C17: every file resolves to a label that is not empty, also when the
\* key that matches it carries an empty value; a file that no key of the
\* mapping matches, exactly or normalized, resolves to document_<i>.
\* ------------------------------------------------------------------------
C17_NonEmptyLabel ==
    \A p \in Procs : \A k \in FileIndexes(p) : \A t \in ResolvedTypes(p, k) :
        /\ t # ""
        /\ t # Undefined
        /\ ( /\ ~HasKey(EntriesOf(p), NameOf(p, k))
             /\ NormalizedMatches(EntriesOf(p), NameOf(p, k)) = {} )
           => t = "document_" \o ToString(k)

\* ------------------------------------------------------------------------
\* C18: a file whose name is an exact key of the mapping resolves to the
\* value stored under that key.
\* ------------------------------------------------------------------------
ExactValue(p, k) ==
    LET entries == EntriesOf(p) IN
    entries[CHOOSE n \in 1..Len(entries) : entries[n].key = NameOf(p, k)].value

C18_ExactKeyWins ==
    \A p \in Procs : \A k \in FileIndexes(p) : \A t \in ResolvedTypes(p, k) :
        HasKey(EntriesOf(p), NameOf(p, k)) => t = ExactValue(p, k)

\* C18, amended: a file whose name is an exact key of the mapping with a
\* value that is not empty resolves to that value, whatever the other keys
\* are; under an exact key with an empty value the resolution goes on to
\* the normalized match and the positional fallback.
C18_ExactNonEmptyKeyWins ==
    \A p \in Procs : \A k \in FileIndexes(p) : \A t \in ResolvedTypes(p, k) :
        HasKey(EntriesOf(p), NameOf(p, k)) =>
            /\ ExactValue(p, k) # "" => t = ExactValue(p, k)
            /\ ExactValue(p, k) = "" =>
                    t = (IF Falsy(NormalizedLookup(EntriesOf(p), NameOf(p, k)))
                         THEN "document_" \o ToString(k)
                         ELSE NormalizedLookup(EntriesOf(p), NameOf(p, k)))

C18_Witness ==
    \E p \in Procs :
        /\ Len(files[p]) = 2
        /\ \A k \in FileIndexes(p) :
              /\ HasKey(EntriesOf(p), NameOf(p, k))
              /\ ExactValue(p, k) # ""
              /\ ResolvedTypes(p, k) = {ExactValue(p, k)}
        /\ NameOf(p, 0) = NameA
        /\ NormalizedLookup(EntriesOf(p), NameA) # ExactValue(p, 0)

\* ------------------------------------------------------------------------
\* C19: a file that no key of the mapping matches, exactly or normalized,
\* resolves to document_<i>, i its zero-based position among all files of
\* the batch; with an empty mapping every file does; files a.pdf, b.png
\* with the mapping {a.pdf: drivers_license} resolve to drivers_license and
\* document_1.
\* ------------------------------------------------------------------------
C19_PositionalFallback ==
    \A p \in Procs : \A k \in FileIndexes(p) : \A t \in ResolvedTypes(p, k) :
        /\ EntriesOf(p) = <<>> => t = "document_" \o ToString(k)
        /\ (\A n \in 1..Len(EntriesOf(p)) :
                /\ EntriesOf(p)[n].key # NameOf(p, k)
                /\ NormalizeFileName(EntriesOf(p)[n].key) # NormalizeFileName(NameOf(p, k)))
            => t = "document_" \o ToString(k)
        /\ ( /\ EntriesOf(p) = <<Entry(NameA, "drivers_license")>>
             /\ Len(files[p]) = 2
             /\ NameOf(p, 0) = NameA
             /\ NameOf(p, 1) = NameB )
           => t = (IF k = 0 THEN "drivers_license" ELSE "document_1")

\* ------------------------------------------------------------------------
\* C20: the normalization used for matching replaces every character that
\* is not a letter, a digit, whitespace, "." or "-" (so the underscore too)
\* by a space, collapses whitespace runs and trims; a file whose name
\* differs from a key only in replaced characters or whitespace runs
\* resolves to the value of the first such key.
\* ------------------------------------------------------------------------
C20_Replace(c) ==
    IF c \in Letters \cup Digits \cup SpaceChars \cup {".", "-"} THEN c ELSE " "

C20_Normalize(s) == Trim(CollapseSpaces([n \in 1..Len(s) |-> C20_Replace(s[n])]))

C20_Matches(entries, name) ==
    {n \in 1..Len(entries) : C20_Normalize(entries[n].key) = C20_Normalize(name)}

C20_NormalizedAsDescribed ==
    \A p \in Procs : \A k \in FileIndexes(p) : \A t \in ResolvedTypes(p, k) :
        /\ NormalizeFileName(NameOf(p, k)) = C20_Normalize(NameOf(p, k))
        /\ \A n \in 1..Len(EntriesOf(p)) :
                NormalizeFileName(EntriesOf(p)[n].key) = C20_Normalize(EntriesOf(p)[n].key)
        /\ LET ms == C20_Matches(EntriesOf(p), NameOf(p, k))
               first == CHOOSE m \in ms : \A j \in ms : m <= j
           IN (Falsy(Lookup(EntriesOf(p), NameOf(p, k))) /\ ms # {}
                    /\ EntriesOf(p)[first].value # "")
                => t = EntriesOf(p)[first].value

\* ------------------------------------------------------------------------
\* C21: normalizing a file name twice gives what normalizing it once
\* gives.
\* ------------------------------------------------------------------------
C21_NormalizeIdempotent ==
    \A p \in Procs :
        Len(trace[p]) = 2 => trace[p][2].outcome = trace[p][1].outcome

C21_Witness ==
    \E p \in Procs :
        /\ Len(trace[p]) = 2
        /\ files[p][1].originalname = <<"\t", "#", "a">>
        /\ trace[p][1].outcome = <<"a">>
        /\ trace[p][2].outcome = <<"a">>

\* ------------------------------------------------------------------------
\* C22: the remote operations of a batch are made file by file, for each
\* file in the order write, public url, insert, delete, each at most once;
\* the url and the insert follow a write that succeeded, the delete an
\* insert that returned an error.
\* ------------------------------------------------------------------------
RemoteOps == {"upload", "url", "insert", "remove"}

OpRank(op) ==
    IF op = "upload" THEN 1 ELSE IF op = "url" THEN 2 ELSE IF op = "insert" THEN 3 ELSE 4

RemoteEvents(p) == {n \in 1..Len(trace[p]) : trace[p][n].op \in RemoteOps}

C22_OrderedNoRetry ==
    \A p \in Procs :
        /\ \A m, n \in RemoteEvents(p) :
            m < n =>
                \/ trace[p][m].file < trace[p][n].file
                \/ /\ trace[p][m].file = trace[p][n].file
                   /\ OpRank(trace[p][m].op) < OpRank(trace[p][n].op)
        /\ \A n \in RemoteEvents(p) :
            /\ trace[p][n].op = "url" =>
                    EventsWith(p, "upload", trace[p][n].file, {"ok"}) # {}
            /\ trace[p][n].op = "insert" =>
                    /\ EventsOf(p, "url", trace[p][n].file) # {}
                    /\ trace[p][n - 1].op = "url"
            /\ trace[p][n].op = "remove" =>
                    EventsWith(p, "insert", trace[p][n].file, {"error"}) # {}

C22_Witness ==
    \E p \in Procs :
        /\ pc[p] = "done"
        /\ Len(files[p]) = 2
        /\ EventsWith(p, "upload", 0, {"ok"}) # {}
        /\ EventsWith(p, "insert", 0, {"error"}) # {}
        /\ EventsOf(p, "remove", 0) # {}
        /\ EventsWith(p, "upload", 1, {"ok"}) # {}
        /\ EventsWith(p, "insert", 1, {"ok"}) # {}

\* ------------------------------------------------------------------------
\* C24: the blob of every document record stays in the bucket, and a step
\* that takes a blob out of the bucket is the compensating delete of the
\* file whose own write created that blob, at a time when no record refers
\* to it.
\* ------------------------------------------------------------------------
C24_RecordsKeepBlob ==
    \A d \in business_documents : \E b \in storage : b.path = d.file_url.path

C24_DeleteOnlyOwnBlob ==
    /\ []C24_RecordsKeepBlob
    /\ [][\A b \in storage \ storage' :
            /\ \E p \in Procs :
                /\ pc[p] = "remove"
                /\ pc'[p] # "remove"
                /\ b.by = <<p, i[p]>>
                /\ b.path = cur[p].filePath
                /\ \E n \in EventsWith(p, "upload", i[p], {"ok"}) :
                        trace[p][n].path = b.path
            /\ \A d \in business_documents : d.file_url.path # b.path]_vars

C24_Witness ==
    /\ \E n \in 1..Len(trace["b1"]) :
        /\ trace["b1"][n].op = "remove"
        /\ trace["b1"][n].outcome = "ok"
        /\ \E m \in 1..Len(trace["b2"]) :
            /\ trace["b2"][m].op = "upload"
            /\ trace["b2"][m].path = trace["b1"][n].path
    /\ uploadedDocuments["b2"] # <<>>
    /\ uploadedDocuments["b2"][1].url.path.ts = 1
    /\ \E d \in NewRecords : d.id = uploadedDocuments["b2"][1].id

\* ------------------------------------------------------------------------
\* The wizard's claims (SpecWizard)
\* ------------------------------------------------------------------------
CompletionHandlers ==
    {"handleSignupComplete", "handleBusinessInfoComplete",
     "handleDocumentsComplete", "handleApplicationSubmit"}

\* what a completion handler may do to the step: the one move of the chain
\* that is its own, on the answer the move needs
C23_Moved(h, r, from, to) ==
    \/ /\ h = "handleSignupComplete"
       /\ <<from, to>> = <<"signup", "business_info">>
       /\ r.outcome = "ok" /\ ~Falsy(r.userId)
       /\ onboardingState'.userId = r.userId
    \/ /\ h = "handleBusinessInfoComplete"
       /\ <<from, to>> = <<"business_info", "documents">>
       /\ r.outcome = "ok" /\ ~Falsy(r.businessId)
       /\ onboardingState'.businessId = r.businessId
    \/ /\ h = "handleDocumentsComplete"
       /\ <<from, to>> = <<"documents", "review">>
    \/ /\ h = "handleApplicationSubmit"
       /\ <<from, to>> = <<"review", "submitted">>
       /\ r.outcome \in {"ok", "unparsable"} /\ r.status = 200

\* C23: a run of a phase 1 completion handler (handleSignupComplete,
\* handleBusinessInfoComplete, handleDocumentsComplete,
\* handleApplicationSubmit) either moves phase1Step by exactly its own link
\* of signup -> business_info -> documents -> review -> submitted, and then
\* its request was answered ok with the id it needs, or leaves the
\* onboarding state as it was and sets an error message.
C23_HandlersFollowChain ==
    [][ (lastEvent' # lastEvent /\ lastEvent'.handler \in CompletionHandlers) =>
            /\ onboardingState.phase = "phase1"
            /\ onboardingState'.phase = "phase1"
            /\ \/ /\ onboardingState'.phase1Step # onboardingState.phase1Step
                  /\ C23_Moved(lastEvent'.handler, lastEvent'.response,
                               onboardingState.phase1Step,
                               onboardingState'.phase1Step)
               \/ /\ onboardingState' = onboardingState
                  /\ error' # Null ]_vars

C23_Witness ==
    /\ lastEvent.handler = "handleSignupComplete"
    /\ onboardingState.phase1Step = "business_info"
    /\ onboardingState.userId = lastEvent.response.userId
    /\ error = Null

\* C25: whenever the wizard is in phase2, a session validated less than
\* two hours before was in sessionStorage when phase2 was entered.
C25_Phase2NeedsSession ==
    onboardingState.phase = "phase2" => lastEvent.session = "fresh"

\* C26: whenever the progress bar is on screen, the step number shown is
\* between 1 and the number of steps of the phase and the percentage is
\* between 1 and 100.
C26_ProgressInRange ==
    Interactive =>
        /\ DisplayedStep(onboardingState) \in 1..getTotalSteps(onboardingState)
        /\ getProgressPercentage(onboardingState) \in 1..100

AllOnboardingStates ==
    [phase : {"phase1", "phase2", "complete"}, phase1Step : Phase1Step,
     phase2Step : Phase2Step, businessId : {Undefined, "biz1"},
     userId : {Undefined, "u1"}]

\* C27: the business-info and document-upload forms are on screen only
\* with a user id; in any state with phase1Step business_info or documents
\* and no user id the render shows no form, puts the step back to signup
\* and sets an error; and a run of handleApplicationSubmit that reaches
\* submitted had both a user id and a business id.
C27_FormsNeedUser ==
    /\ [](/\ Content(onboardingState) \in {"BusinessInfoForm", "DocumentUploadForm"}
                => ~Falsy(onboardingState.userId)
          /\ \A st \in AllOnboardingStates :
                (/\ st.phase = "phase1"
                 /\ st.phase1Step \in {"business_info", "documents"}
                 /\ Falsy(st.userId))
                    => /\ Phase1Content(st) = Null
                       /\ RenderGuard(st).state.phase1Step = "signup"
                       /\ RenderGuard(st).error # Null)
    /\ [][ (/\ lastEvent' # lastEvent
            /\ lastEvent'.handler = "handleApplicationSubmit"
            /\ onboardingState'.phase1Step = "submitted")
                => /\ ~Falsy(onboardingState.userId)
                   /\ ~Falsy(onboardingState.businessId)
                   /\ onboardingState'.userId = onboardingState.userId
                   /\ onboardingState'.businessId = onboardingState.businessId ]_vars

C27_Witness ==
    /\ lastEvent.handler = "handleApplicationSubmit"
    /\ onboardingState.phase1Step = "submitted"
    /\ ~Falsy(onboardingState.userId)
    /\ ~Falsy(onboardingState.businessId)

\* ------------------------------------------------------------------------
\* The service pricing claim (SpecPricing)
\* ------------------------------------------------------------------------
WithoutService(services, id) ==
    LET Keep(service) == service.id # id IN SelectSeq(services, Keep)

\* a rejected add or confirmation leaves the list as it was
C28_RejectedAddKeepsList ==
    [][ (/\ servicePricing'.lastOp # servicePricing.lastOp
         /\ servicePricing'.lastOp.op \in {"add", "confirm"}
         /\ AddServiceRejected(newService))
            => pricingData'.services = pricingData.services ]_vars

\* editing a service and confirming leaves the number of services as it was
C28_EditKeepsCount ==
    [][ (/\ servicePricing'.lastOp # servicePricing.lastOp
         /\ servicePricing'.lastOp.op = "confirm")
            => Len(pricingData'.services) = Len(pricingData.services) ]_vars

\* removing a service removes that service and no other
C28_RemoveRemovesOne ==
    [][ (/\ servicePricing'.lastOp # servicePricing.lastOp
         /\ servicePricing'.lastOp.op = "remove")
            => /\ Len(pricingData'.services) = Len(pricingData.services) - 1
               /\ pricingData'.services =
                    WithoutService(pricingData.services, servicePricing'.lastOp.id) ]_vars

\* a submit happens, and onComplete is called, only with at least one
\* service, and onComplete only when the save was answered ok
C28_SubmitNeedsService ==
    [][ /\ (/\ servicePricing'.lastOp # servicePricing.lastOp
            /\ servicePricing'.lastOp.op = "submit")
                => Len(pricingData.services) >= 1
        /\ servicePricing'.onComplete # servicePricing.onComplete
                => /\ servicePricing'.lastOp = PricingOp("submit", 0, TRUE)
                   /\ servicePricing'.onComplete = <<pricingData>>
                   /\ Len(pricingData.services) >= 1 ]_vars

\* C28: in the service pricing step a rejected add (empty name, empty
\* description or basePrice <= 0) leaves the service list unchanged,
\* editing a service and confirming leaves the number of services
\* unchanged, removing a service removes exactly that service, and submit
\* is possible, and onComplete called, only with at least one service and
\* only after the save request returned ok.
C28_ServiceList ==
    /\ C28_RejectedAddKeepsList
    /\ C28_EditKeepsCount
    /\ C28_RemoveRemovesOne
    /\ C28_SubmitNeedsService

\* ------------------------------------------------------------------------
\* The personal profile claim (SpecProfile)
\* ------------------------------------------------------------------------
\* onComplete is called only by a submit whose form data passed the
\* validation and whose PUT was answered ok, and with the data of the PUT
C29_OnlyAfterValidSave ==
    [][ personalProfile'.onComplete # personalProfile.onComplete =>
            /\ ValidationErrors(formData) = {}
            /\ personalProfile'.put # <<>>
            /\ personalProfile'.put[1].ok
            /\ personalProfile'.onComplete = <<personalProfile'.put[1].body>> ]_vars

\* what is saved and passed on has the URL of every uploaded image
C29_ImagesIncluded ==
    [][ personalProfile'.onComplete # personalProfile.onComplete =>
            \A t \in ImageTypes :
                imageUpload'[t].uploaded =>
                    /\ ImageField(personalProfile'.put[1].body, t) = imageUpload'[t].url
                    /\ ImageField(personalProfile'.onComplete[1], t) = imageUpload'[t].url
      ]_vars

\* C29: in the personal profile step onComplete is called only after the
\* validation passed and the PUT of the profile returned ok, and the data
\* sent in that PUT and passed to onComplete holds the URL of every image
\* that was uploaded successfully, the avatar or cover uploaded by the
\* submit itself included.
C29_CompleteHasImages ==
    /\ C29_OnlyAfterValidSave
    /\ C29_ImagesIncluded

\* ------------------------------------------------------------------------
\* The admin endpoint's claim (SpecAdmin)
\* ------------------------------------------------------------------------
\* the business profiles of the businesses a user has provider rows for
C30_BusinessesOf(userId) ==
    {business_profiles[b] :
        b \in {p.business_id : p \in {q \in providers : q.user_id = userId}}}

C30_MostRecent(userId) ==
    CHOOSE b \in C30_BusinessesOf(userId) :
        \A other \in C30_BusinessesOf(userId) : other.created_at <= b.created_at

C30_HasOwnerRow(userId, businessId) ==
    \E p \in providers :
        /\ p.user_id = userId
        /\ p.business_id = businessId
        /\ p.provider_role = "owner"

\* C30: the debug-user-business handler writes to the providers table only
\* for a POST with fixRelationships set, at least one business profile of
\* the user and no owner row of the user for the most recently created of
\* them, and what it writes is that owner row; every GET and every other
\* POST leaves all tables as they were; and the same fixing POST sent again
\* after a successful fix writes nothing.
C30_FixWritesOnce ==
    [][ /\ (debugCall'.wrote \/ providers' # providers) =>
                /\ debugCall'.request.method = "POST"
                /\ debugCall'.request.fixRelationships
                /\ TargetUser(debugCall'.request) # <<>>
                /\ LET u == TargetUser(debugCall'.request)[1].id
                   IN /\ C30_BusinessesOf(u) # {}
                      /\ ~C30_HasOwnerRow(u, C30_MostRecent(u).id)
                      /\ providers' \ providers =
                            {ProviderRow(u, C30_MostRecent(u).id,
                                         TargetUser(debugCall'.request)[1].email,
                                         "owner")}
                      /\ \A p \in providers \ providers' :
                            p.user_id = u /\ p.business_id = C30_MostRecent(u).id
        /\ (debugCall.wrote /\ debugCall'.request = debugCall.request) =>
                ~debugCall'.wrote /\ providers' = providers
        /\ UNCHANGED <<business_profiles, business_documents, storage>> ]_vars

\* a fix has written the owner row, and the same POST sent again has been
\* answered with the summary
C30_Witness ==
    /\ debugCall.fixed = <<debugCall.request>>
    /\ ~debugCall.wrote
    /\ debugCall.status = 200
    /\ debugCall.message = "summary"
    /\ C30_HasOwnerRow("u1", "biz2")

====
